---- MODULE Spec2Model ----
(***************************************************************************)
(* Model of scripts/check_voice_consistency.py: the context classifier,    *)
(* the rule evaluator, the example-format and anti-pattern checkers, the   *)
(* reporter and the command line driver.                                   *)
(*                                                                         *)
(* Lines are strings, as readlines() returns them (with their newline).    *)
(* Regular expressions are sequences of atoms matched character by         *)
(* character by the operators below.  The two glyphs of the example        *)
(* markers are written with one ASCII character each: "@" stands for the   *)
(* check mark and "%" for the cross mark (neither is a word character,     *)
(* white space, or changed by lower()).  A TLA+ string cannot hold a       *)
(* backtick either: "~" stands for the backtick.                           *)
(***************************************************************************)
EXTENDS Integers, Sequences, FiniteSets, TLC

VARIABLES fs, args, pc, skill_files, reports, output, exit_code, run, prev_output,
          stderr,
          skill_dir, target_dir, errors, warnings, result, last_call, calls,
          skill, fix_log,
          batch, target_root, batch_log, batch_exit

\* the state of a run of check_voice_consistency.py
checker_vars == <<fs, args, pc, skill_files, reports, output, exit_code, run, prev_output,
                  stderr>>

\* the state of a SkillPackager and of the directories it works on
packager_vars == <<skill_dir, target_dir, errors, warnings, result, last_call, calls>>

\* the skill that fix_metadata.py works on, and its calls so far
fixer_vars == <<skill, fix_log>>

\* a run of package_skill.py over several skills: the skills and the options,
\* the directories under the target, the calls so far and the exit code
batch_vars == <<batch, target_root, batch_log, batch_exit>>

vars == <<checker_vars, packager_vars, fixer_vars, batch_vars>>

(***************************************************************************)
(* Characters and strings                                                  *)
(***************************************************************************)
CHECKMARK == "@"
CROSSMARK == "%"
BACKTICK == "~"

Chars(str) == {SubSeq(str, k, k) : k \in 1..Len(str)}

UPPER == "ABCDEFGHIJKLMNOPQRSTUVWXYZ"
LOWER == "abcdefghijklmnopqrstuvwxyz"

WordChars == Chars(UPPER) \cup Chars(LOWER) \cup Chars("0123456789_")
SpaceChars == {" ", "\t", "\n"}

UpperToLower == [c \in Chars(UPPER) |->
                   LET k == CHOOSE j \in 1..Len(UPPER) : SubSeq(UPPER, j, j) = c
                   IN  SubSeq(LOWER, k, k)]

LowerChar(c) == IF c \in DOMAIN UpperToLower THEN UpperToLower[c] ELSE c

\* str.lower()
RECURSIVE Lower(_)
Lower(s) ==
    IF Len(s) <= 1 THEN (IF s = "" THEN "" ELSE LowerChar(s))
    ELSE LET mid == Len(s) \div 2
         IN  Lower(SubSeq(s, 1, mid)) \o Lower(SubSeq(s, mid + 1, Len(s)))

CharAt(s, i) == SubSeq(s, i, i)

\* str.strip(): white space removed at both ends
RECURSIVE LStrip(_)
LStrip(s) == IF s /= "" /\ Head(s) \in SpaceChars THEN LStrip(Tail(s)) ELSE s

RECURSIVE RStrip(_)
RStrip(s) ==
    IF s /= "" /\ CharAt(s, Len(s)) \in SpaceChars
    THEN RStrip(SubSeq(s, 1, Len(s) - 1))
    ELSE s

Strip(s) == LStrip(RStrip(s))

Max(S) == CHOOSE x \in S : \A y \in S : y <= x
Min(S) == CHOOSE x \in S : \A y \in S : x <= y

\* str occurs in text
Occurs(str, text) ==
    \E p \in 1..(Len(text) - Len(str) + 1) : SubSeq(text, p, p + Len(str) - 1) = str

\* the positions at which a text occurs in a line
Occurrences(str, text) ==
    {p \in 1..(Len(text) - Len(str) + 1) : SubSeq(text, p, p + Len(str) - 1) = str}

StartsWith(str, prefix) ==
    Len(str) >= Len(prefix) /\ SubSeq(str, 1, Len(prefix)) = prefix

(***************************************************************************)
(* Regular expressions (module re).  A pattern is a sequence of atoms:     *)
(*   [k |-> "bol"]                   ^                                     *)
(*   [k |-> "b"]                     \b                                    *)
(*   [k |-> "lit", s |-> str]        the literal text str                  *)
(*   [k |-> "cls", c, min, max]      min..max characters of class c,       *)
(*                                   greedy; max = Many is unbounded       *)
(***************************************************************************)
Many == -1

Bol == <<[k |-> "bol", s |-> "", c |-> "", min |-> 0, max |-> 0]>>
B == <<[k |-> "b", s |-> "", c |-> "", min |-> 0, max |-> 0]>>
L(str) == <<[k |-> "lit", s |-> str, c |-> "", min |-> 0, max |-> 0]>>
Cls(c, min, max) == <<[k |-> "cls", s |-> "", c |-> c, min |-> min, max |-> max]>>

S1 == Cls("s", 1, Many)        \* \s+
S0 == Cls("s", 0, Many)        \* \s*
W1 == Cls("w", 1, Many)        \* \w+
W0 == Cls("w", 0, Many)        \* (\w+)?
Dot0 == Cls("dot", 0, Many)    \* .*

InClass(c, ch) ==
    CASE c = "s" -> ch \in SpaceChars                \* \s
      [] c = "w" -> ch \in WordChars                 \* \w
      [] c = "dot" -> ch /= "\n"                     \* .
      [] c = "notbt" -> ch /= BACKTICK               \* any character but a backtick
      [] c = "gt#" -> ch \in {">", "#"}              \* [>#]
      [] c = "-s" -> ch = "-" \/ ch \in SpaceChars   \* [-\s]
      [] c = "'" -> ch = "'"                         \* \'
      [] OTHER -> FALSE

\* the number of characters of class c that start at position i, at most max
ClassRun(c, s, i, max) ==
    IF i > Len(s) THEN 0
    ELSE LET last == IF max = Many \/ i + max - 1 > Len(s) THEN Len(s) ELSE i + max - 1
             others == {j \in i..last : ~InClass(c, CharAt(s, j))}
         IN  IF others = {} THEN last - i + 1 ELSE Min(others) - i

IsWordAt(s, i) == i >= 1 /\ i <= Len(s) /\ CharAt(s, i) \in WordChars

\* \b between the characters i-1 and i
AtBoundary(s, i) == IsWordAt(s, i - 1) /= IsWordAt(s, i)

\* whether the literal lit stands in s at position i; with IGNORECASE the
\* characters are compared in lower case
LitAt(lit, s, i, ignorecase) ==
    /\ i + Len(lit) - 1 <= Len(s)
    /\ \A k \in 1..Len(lit) :
          IF ignorecase
          THEN LowerChar(CharAt(s, i + k - 1)) = LowerChar(CharAt(lit, k))
          ELSE CharAt(s, i + k - 1) = CharAt(lit, k)

\* the positions at which a match of the atoms k.. of pat that starts at i can end
RECURSIVE Ends(_, _, _, _, _)
Ends(pat, k, s, i, ic) ==
    IF k > Len(pat) THEN {i}
    ELSE LET a == pat[k] IN
         CASE a.k = "bol" -> IF i = 1 THEN Ends(pat, k + 1, s, i, ic) ELSE {}
           [] a.k = "b" -> IF AtBoundary(s, i) THEN Ends(pat, k + 1, s, i, ic) ELSE {}
           [] a.k = "lit" ->
                IF LitAt(a.s, s, i, ic)
                THEN Ends(pat, k + 1, s, i + Len(a.s), ic)
                ELSE {}
           [] a.k = "cls" ->
                LET n == ClassRun(a.c, s, i, a.max)
                IN  UNION {Ends(pat, k + 1, s, i + m, ic) : m \in a.min..n}

\* the end of the match of pat at position i (every quantifier is greedy and
\* no pattern has an alternative, so the first match is the longest), 0 if none
LastEnd(ends) == IF ends = {} THEN 0 ELSE Max(ends)

MatchAt(pat, s, i, ic) == LastEnd(Ends(pat, 1, s, i, ic))

\* re.match(pat, s) is not None
re_match(pat, s) == MatchAt(pat, s, 1, FALSE) /= 0

\* re.search(pat, s) is not None
re_search(pat, s) == \E i \in 1..(Len(s) + 1) : MatchAt(pat, s, i, FALSE) /= 0

\* the first position >= pos at which pat matches, 0 if there is none
NextStart(pat, s, pos, ic) ==
    LET starts == {p \in pos..(Len(s) + 1) : MatchAt(pat, s, p, ic) /= 0}
    IN  IF starts = {} THEN 0 ELSE Min(starts)

\* re.finditer(pat, s, flags): the non-overlapping matches from left to right,
\* each the matched text, match.group(0)
RECURSIVE FindFrom(_, _, _, _)

\* the match from i to e (exclusive) and the matches after it; after an empty
\* match the search goes on one character further
MatchAndRest(pat, s, i, e, ic) ==
    <<SubSeq(s, i, e - 1)>> \o FindFrom(pat, s, IF e = i THEN e + 1 ELSE e, ic)

\* the matches from the first start i on, none when i = 0
FindAt(pat, s, i, ic) ==
    IF i = 0 THEN <<>> ELSE MatchAndRest(pat, s, i, MatchAt(pat, s, i, ic), ic)

FindFrom(pat, s, pos, ic) == FindAt(pat, s, NextStart(pat, s, pos, ic), ic)

re_finditer(pat, s, ic) == FindFrom(pat, s, 1, ic)

RECURSIVE Concat(_)
Concat(ss) ==
    IF ss = <<>> THEN <<>>
    ELSE IF Len(ss) = 1 THEN ss[1]
    ELSE LET mid == Len(ss) \div 2
         IN  Concat(SubSeq(ss, 1, mid)) \o Concat(SubSeq(ss, mid + 1, Len(ss)))

(***************************************************************************)
(* Pattern definitions                                                     *)
(***************************************************************************)
Rule(re, suggestion) == [re |-> re, suggestion |-> suggestion]

SECOND_PERSON_PATTERNS == <<
    Rule(B \o L("you") \o S1 \o L("should") \o B,
         "Replace with imperative: 'Use X' or 'Apply Y'"),
    Rule(B \o L("you") \o S1 \o L("must") \o B,
         "Replace with imperative: 'Must X' or 'Always Y'"),
    Rule(B \o L("you") \o S1 \o L("can") \o B,
         "Replace with capability statement: 'To X, do Y' or 'X enables Y'"),
    Rule(B \o L("you") \o S1 \o L("need") \o S1 \o L("to") \o B,
         "Replace with imperative: '[Verb] directly'"),
    Rule(B \o L("you") \o S1 \o L("have") \o S1 \o L("to") \o B,
         "Replace with imperative: 'Required: X' or 'Must Y'"),
    Rule(B \o L("you") \o S1 \o L("want") \o S1 \o L("to") \o B,
         "Replace with purpose: 'To accomplish X, do Y'"),
    Rule(B \o L("you'll") \o S1 \o L("need") \o B,
         "Replace with requirement: 'Required: X' or 'Need: Y'"),
    Rule(B \o L("you'll") \o S1 \o L("want") \o B,
         "Replace with purpose: 'To accomplish X, do Y'"),
    Rule(B \o L("you're") \o B, "Rewrite in imperative voice"),
    Rule(B \o L("yourself") \o B, "Rewrite in imperative voice"),
    Rule(B \o L("your") \o S1 \o W1 \o S1 \o L("should") \o B,
         "Replace with imperative statement"),
    Rule(B \o L("your") \o S1 \o W1 \o S1 \o L("must") \o B,
         "Replace with imperative requirement"),
    Rule(B \o L("your") \o S1 \o W1 \o S1 \o L("can") \o B,
         "Replace with capability description"),
    Rule(B \o L("if") \o S1 \o L("you") \o B,
         "Replace with conditional: 'When X occurs, do Y'"),
    Rule(B \o L("when") \o S1 \o L("you") \o B,
         "Replace with temporal: 'When X occurs' or 'During Y'") >>

PASSIVE_VOICE_PATTERNS == <<
    Rule(B \o L("is") \o S1 \o W1 \o L("ed") \o B,
         "Consider active voice: 'X does Y' instead of 'Y is done by X'"),
    Rule(B \o L("are") \o S1 \o W1 \o L("ed") \o B, "Consider active voice"),
    Rule(B \o L("was") \o S1 \o W1 \o L("ed") \o B, "Consider active voice"),
    Rule(B \o L("were") \o S1 \o W1 \o L("ed") \o B, "Consider active voice"),
    Rule(B \o L("been") \o S1 \o W1 \o L("ed") \o B, "Consider active voice"),
    Rule(B \o L("being") \o S1 \o W1 \o L("ed") \o B, "Consider active voice") >>

NON_IMPERATIVE_PATTERNS == <<
    Rule(B \o L("should") \o S1 \o W1 \o B,
         "Use imperative: '[Verb] X' instead of 'should [verb]'"),
    Rule(B \o L("would") \o S1 \o W1 \o B, "Use imperative or conditional"),
    Rule(B \o L("could") \o S1 \o W1 \o B, "Use imperative or possibility statement"),
    Rule(B \o L("might") \o S1 \o W1 \o B, "Use imperative or conditional"),
    Rule(B \o L("may") \o S1 \o W1 \o B, "Use imperative or permission statement"),
    Rule(B \o L("consider") \o S1 \o W1 \o L("ing") \o B,
         "Use imperative: '[Verb] X' instead of 'consider [verb]ing'") >>

CONVERSATIONAL_PATTERNS == <<
    Rule(B \o L("let's") \o B,
         "Use imperative: 'Create X' instead of 'Let's create X'"),
    Rule(B \o L("we") \o S1 \o L("can") \o B,
         "Rewrite with focus on action, not actor"),
    Rule(B \o L("we") \o S1 \o L("should") \o B, "Use imperative directive"),
    Rule(B \o L("we") \o S1 \o L("need") \o S1 \o L("to") \o B,
         "Use imperative requirement"),
    Rule(B \o L("I") \o S1 \o L("recommend") \o B,
         "State recommendation directly: 'Use X for Y'"),
    Rule(B \o L("I") \o S1 \o L("suggest") \o B, "State suggestion directly"),
    Rule(B \o L("In") \o S1 \o L("my") \o S1 \o L("experience") \o B,
         "State fact directly or remove") >>

EXAMPLE_CHECKMARK_PATTERN == Bol \o S0 \o L(CHECKMARK) \o S1
EXAMPLE_CROSSMARK_PATTERN == Bol \o S0 \o L(CROSSMARK) \o S1
FENCE == BACKTICK \o BACKTICK \o BACKTICK
CODE_BLOCK_START == Bol \o L(FENCE) \o W0

EXCEPTION_CONTEXTS == <<
    Bol \o S0 \o Cls("gt#", 1, 1) \o S1,
    Bol \o S0 \o L("-") \o S1 \o L("**") \o Dot0 \o L("**:"),
    Bol \o S0 \o L("|") \o S0 \o Dot0 \o S0 \o L("|"),
    L(BACKTICK) \o Cls("notbt", 1, Many) \o L(BACKTICK) >>

(***************************************************************************)
(* Context detection                                                       *)
(***************************************************************************)
\* mutant: the fence never toggles the state
ToggleCodeBlock_Never(line, code_block_active) == code_block_active

\* mutant: the marker is looked for anywhere on the line
ToggleCodeBlock_Anywhere(line, code_block_active) ==
    IF Occurs(FENCE, line) THEN ~code_block_active ELSE code_block_active

\* code_block_active after the line (lines 170-171)
ToggleCodeBlock(line, code_block_active) ==
    IF re_match(CODE_BLOCK_START, line) THEN ~code_block_active ELSE code_block_active

\* mutant: the opening marker is looked for on the second line
TrackFrontmatter_OffByOne(line, i, frontmatter_active) ==
    IF Strip(line) = "---"
    THEN (IF i = 1 THEN TRUE
          ELSE IF frontmatter_active THEN FALSE
          ELSE frontmatter_active)
    ELSE frontmatter_active

\* mutant: every --- line switches the state, on whatever line it stands
TrackFrontmatter_Reopens(line, i, frontmatter_active) ==
    IF Strip(line) = "---" THEN ~frontmatter_active ELSE frontmatter_active

\* frontmatter_active after line i, 0-based (lines 175-179)
TrackFrontmatter(line, i, frontmatter_active) ==
    IF Strip(line) = "---"
    THEN (IF i = 0 THEN TRUE
          ELSE IF frontmatter_active THEN FALSE
          ELSE frontmatter_active)
    ELSE frontmatter_active

\* the loop of _build_context_map over the lines from (0-based) up to, and
\* without, to, entered with the two flags: the flags after the last of these
\* lines and the four marks of each of them
RECURSIVE BuildFrom(_, _, _, _, _)
BuildFrom(lines, from, to, code_block_active, frontmatter_active) ==
    IF to <= from
    THEN [code_block_active |-> code_block_active,
          frontmatter_active |-> frontmatter_active,
          in_code_block |-> <<>>, in_frontmatter |-> <<>>,
          in_quote |-> <<>>, in_table |-> <<>>]
    ELSE IF to = from + 1
    THEN LET line == lines[from + 1]
             cb == ToggleCodeBlock(line, code_block_active)
             fm == TrackFrontmatter(line, from, frontmatter_active)
         IN  [code_block_active |-> cb,
              frontmatter_active |-> fm,
              in_code_block |-> <<cb>>,
              in_frontmatter |-> <<fm>>,
              in_quote |-> <<re_match(Bol \o S0 \o L(">"), line)>>,
              in_table |-> <<re_match(Bol \o S0 \o L("|"), line)>>]
    ELSE LET mid == (from + to) \div 2
             first == BuildFrom(lines, from, mid, code_block_active, frontmatter_active)
             rest == CASE first.code_block_active /\ first.frontmatter_active ->
                              BuildFrom(lines, mid, to, TRUE, TRUE)
                       [] first.code_block_active /\ ~first.frontmatter_active ->
                              BuildFrom(lines, mid, to, TRUE, FALSE)
                       [] ~first.code_block_active /\ first.frontmatter_active ->
                              BuildFrom(lines, mid, to, FALSE, TRUE)
                       [] OTHER -> BuildFrom(lines, mid, to, FALSE, FALSE)
         IN  [code_block_active |-> rest.code_block_active,
              frontmatter_active |-> rest.frontmatter_active,
              in_code_block |-> first.in_code_block \o rest.in_code_block,
              in_frontmatter |-> first.in_frontmatter \o rest.in_frontmatter,
              in_quote |-> first.in_quote \o rest.in_quote,
              in_table |-> first.in_table \o rest.in_table]

_build_context_map(lines) ==
    LET built == BuildFrom(lines, 0, Len(lines), FALSE, FALSE)
    IN  [in_code_block |-> built.in_code_block,
         in_frontmatter |-> built.in_frontmatter,
         in_quote |-> built.in_quote,
         in_table |-> built.in_table]

ContextDetector(lines) == _build_context_map(lines)

\* mutant: the inline patterns are not searched
is_exception_context_FlagsOnly(context, line_idx, line) ==
    \/ context.in_code_block[line_idx + 1]
    \/ context.in_frontmatter[line_idx + 1]
    \/ context.in_quote[line_idx + 1]
    \/ context.in_table[line_idx + 1]

is_exception_context(context, line_idx, line) ==
    IF \/ context.in_code_block[line_idx + 1]
       \/ context.in_frontmatter[line_idx + 1]
       \/ context.in_quote[line_idx + 1]
       \/ context.in_table[line_idx + 1]
    THEN TRUE
    ELSE \E p \in 1..Len(EXCEPTION_CONTEXTS) : re_search(EXCEPTION_CONTEXTS[p], line)

(***************************************************************************)
(* Checkers                                                                *)
(***************************************************************************)
\* an Optional[str]: None, or the string
None == <<>>
Some(str) == <<str>>

Violation(file_path, line_num, line_content, violation_type, severity, message, suggestion, matched_text) ==
    [file_path |-> file_path, line_num |-> line_num,
     line_content |-> line_content, violation_type |-> violation_type,
     severity |-> severity, message |-> message,
     suggestion |-> suggestion, matched_text |-> matched_text]

\* mutant: only the first match of each pattern is reported
CheckPatterns_FirstOnly(patterns, file_path, idx, line, line_lower, vtype, severity, message) ==
    Concat([p \in 1..Len(patterns) |->
        LET matches == re_finditer(patterns[p].re, line_lower, TRUE)
        IN  [m \in 1..(IF matches = <<>> THEN 0 ELSE 1) |->
                Violation(file_path, idx + 1, line, vtype, severity, message,
                          patterns[p].suggestion, Some(matches[m]))]])

\* the body of the loop over the matches of one pattern: a violation for every
\* match
MatchViolations(matches, file_path, idx, line, vtype, severity, message, suggestion) ==
    [m \in 1..Len(matches) |->
        Violation(file_path, idx + 1, line, vtype, severity, message,
                  suggestion, Some(matches[m]))]

\* one category of rules on one line: a violation for every match of every
\* pattern, the patterns in table order
CheckPatterns(patterns, file_path, idx, line, line_lower, vtype, severity, message) ==
    Concat([p \in 1..Len(patterns) |->
        MatchViolations(re_finditer(patterns[p].re, line_lower, TRUE),
                        file_path, idx, line, vtype, severity, message,
                        patterns[p].suggestion)])

\* mutant: the patterns are applied to every line, whatever its context
VoiceCheckLine_EveryLine(context, file_path, idx, line) ==
    LET line_lower == Lower(line)
    IN  CheckPatterns(SECOND_PERSON_PATTERNS, file_path, idx, line, line_lower,
            "second_person_voice", "error",
            "Second-person voice detected (use imperative)")
        \o CheckPatterns(PASSIVE_VOICE_PATTERNS, file_path, idx, line, line_lower,
            "passive_voice", "warning", "Passive voice detected")
        \o CheckPatterns(NON_IMPERATIVE_PATTERNS, file_path, idx, line, line_lower,
            "non_imperative_mood", "warning", "Non-imperative mood detected")
        \o CheckPatterns(CONVERSATIONAL_PATTERNS, file_path, idx, line, line_lower,
            "conversational_tone", "info", "Conversational tone detected")

\* mutant: passive voice is reported with the severity of second-person voice
VoiceCheckLine_PassiveAsError(context, file_path, idx, line) ==
    IF is_exception_context(context, idx, line) THEN <<>>
    ELSE LET line_lower == Lower(line)
         IN  CheckPatterns(SECOND_PERSON_PATTERNS, file_path, idx, line, line_lower,
                 "second_person_voice", "error",
                 "Second-person voice detected (use imperative)")
             \o CheckPatterns(PASSIVE_VOICE_PATTERNS, file_path, idx, line, line_lower,
                 "passive_voice", "error", "Passive voice detected")
             \o CheckPatterns(NON_IMPERATIVE_PATTERNS, file_path, idx, line, line_lower,
                 "non_imperative_mood", "warning", "Non-imperative mood detected")
             \o CheckPatterns(CONVERSATIONAL_PATTERNS, file_path, idx, line, line_lower,
                 "conversational_tone", "info", "Conversational tone detected")

VoiceCheckLine(context, file_path, idx, line) ==
    IF is_exception_context(context, idx, line) THEN <<>>
    ELSE LET line_lower == Lower(line)
         IN  CheckPatterns(SECOND_PERSON_PATTERNS, file_path, idx, line, line_lower,
                 "second_person_voice", "error",
                 "Second-person voice detected (use imperative)")
             \o CheckPatterns(PASSIVE_VOICE_PATTERNS, file_path, idx, line, line_lower,
                 "passive_voice", "warning", "Passive voice detected")
             \o CheckPatterns(NON_IMPERATIVE_PATTERNS, file_path, idx, line, line_lower,
                 "non_imperative_mood", "warning", "Non-imperative mood detected")
             \o CheckPatterns(CONVERSATIONAL_PATTERNS, file_path, idx, line, line_lower,
                 "conversational_tone", "info", "Conversational tone detected")

VoiceConsistencyChecker_check_file(context, file_path, lines) ==
    Concat([i \in 1..Len(lines) |-> VoiceCheckLine(context, file_path, i - 1, lines[i])])

\* one iteration of the loop of ExampleFormatChecker.check_file, at line i
\* (0-based).  The loop also collects orphaned_code_blocks, a list that is
\* never read afterwards.
\* a variant that does not look at the line after the marker
ExampleCheckLine_IgnoresFence(file_path, lines, i) ==
    LET line == lines[i + 1]
    IN  IF (re_match(EXAMPLE_CHECKMARK_PATTERN, line)
              \/ re_match(EXAMPLE_CROSSMARK_PATTERN, line)) /\ i + 1 < Len(lines)
        THEN <<Violation(file_path, i + 1, line, "missing_code_block", "warning",
                         "example not followed by code block",
                         "Add code block after example", None)>>
        ELSE <<>>

ExampleCheckLine(file_path, lines, i) ==
    LET line == lines[i + 1]
        unfenced == i + 1 < Len(lines) /\ ~re_match(CODE_BLOCK_START, lines[i + 2])
    IN  (IF re_match(EXAMPLE_CHECKMARK_PATTERN, line) /\ unfenced
         THEN <<Violation(file_path, i + 1, line, "missing_code_block", "warning",
                          "(check) example not followed by code block",
                          "Add code block after (check) example", None)>>
         ELSE <<>>)
        \o
        (IF re_match(EXAMPLE_CROSSMARK_PATTERN, line) /\ unfenced
         THEN <<Violation(file_path, i + 1, line, "missing_code_block", "warning",
                          "(cross) example not followed by code block",
                          "Add code block after (cross) example", None)>>
         ELSE <<>>)

\* good_examples and bad_examples: the line numbers of the markers, in order
MarkerLines(pattern, lines) ==
    SelectSeq([i \in 1..Len(lines) |-> i], LAMBDA n : re_match(pattern, lines[n]))

\* a variant that reports the imbalance at the last marker
ExampleResult_LastMarker(file_path, marker_violations, good_examples, bad_examples) ==
    LET markers == good_examples \o bad_examples
    IN  [violations |->
            marker_violations \o
            (IF (good_examples = <<>>) /= (bad_examples = <<>>)
             THEN <<Violation(file_path, markers[Len(markers)], "",
                              "imbalanced_examples", "info",
                              "Only one kind of example found",
                              "Add examples of the other kind", None)>>
             ELSE <<>>),
         has_examples |-> markers /= <<>>]

\* the violations of the loop, and the check of the balance of good_examples
\* and bad_examples that follows it
ExampleResult(file_path, marker_violations, good_examples, bad_examples) ==
    LET only_good ==
            IF good_examples /= <<>> /\ bad_examples = <<>>
            THEN <<Violation(file_path, good_examples[1], "", "imbalanced_examples",
                             "info",
                             "Only (check) examples found, consider adding (cross) anti-patterns",
                             "Add (cross) examples to show what NOT to do", None)>>
            ELSE <<>>
        only_bad ==
            IF bad_examples /= <<>> /\ good_examples = <<>>
            THEN <<Violation(file_path, bad_examples[1], "", "imbalanced_examples",
                             "info",
                             "Only (cross) examples found, consider adding (check) correct patterns",
                             "Add (check) examples to show correct usage", None)>>
            ELSE <<>>
    IN  [violations |-> marker_violations \o only_good \o only_bad,
         has_examples |-> good_examples /= <<>> \/ bad_examples /= <<>>]

\* returns (violations, has_examples); the context is not read
ExampleFormatChecker_check_file(context, file_path, lines) ==
    ExampleResult(file_path,
        Concat([i \in 1..Len(lines) |-> ExampleCheckLine(file_path, lines, i - 1)]),
        MarkerLines(EXAMPLE_CHECKMARK_PATTERN, lines),
        MarkerLines(EXAMPLE_CROSSMARK_PATTERN, lines))

\* '\n'.join(lines)
RECURSIVE Join(_)
Join(lines) ==
    IF lines = <<>> THEN ""
    ELSE IF Len(lines) = 1 THEN lines[1]
    ELSE LET mid == Len(lines) \div 2
         IN  Join(SubSeq(lines, 1, mid)) \o "\n" \o Join(SubSeq(lines, mid + 1, Len(lines)))

ANTI_PATTERN_MIN_LINES == 100

\* mutant: a document of exactly 100 lines is reported too
MissingAntiPatterns_AtLeast(has_anti_patterns, line_count) ==
    ~has_anti_patterns /\ line_count >= ANTI_PATTERN_MIN_LINES

\* the test of line 418 on the two values it reads
MissingAntiPatterns(has_anti_patterns, line_count) ==
    ~has_anti_patterns /\ line_count > ANTI_PATTERN_MIN_LINES

\* returns (violations, has_anti_patterns); has_best_practices is computed by
\* the code and never read
\* has_anti_patterns, lines 403-408, of the lower-cased content
\* a variant in which the separator of anti and pattern may be missing
HasAntiPatterns_OptionalSeparator(content) ==
    \/ re_search(L("anti") \o Cls("-s", 0, 1) \o L("pattern"), content)
    \/ re_search(L(CROSSMARK) \o Dot0 \o L("wrong"), content)
    \/ re_search(L("don") \o Cls("'", 0, 1) \o L("t"), content)
    \/ re_search(L("avoid"), content)

HasAntiPatterns(content) ==
    \/ re_search(L("anti") \o Cls("-s", 1, 1) \o L("pattern"), content)
    \/ re_search(L(CROSSMARK) \o Dot0 \o L("wrong"), content)
    \/ re_search(L("don") \o Cls("'", 0, 1) \o L("t"), content)
    \/ re_search(L("avoid"), content)

AntiPatternResult(file_path, has_anti_patterns, line_count) ==
    [violations |->
        IF MissingAntiPatterns(has_anti_patterns, line_count)
        THEN <<Violation(file_path, 1, "", "missing_anti_patterns", "info",
                         "No anti-patterns documented",
                         "Consider adding section on common mistakes/anti-patterns",
                         None)>>
        ELSE <<>>,
     has_anti_patterns |-> has_anti_patterns]

AntiPatternChecker_check_file(file_path, lines) ==
    AntiPatternResult(file_path, HasAntiPatterns(Lower(Join(lines))), Len(lines))

(***************************************************************************)
(* Reports                                                                 *)
(***************************************************************************)
FileReport(file_path, violations, has_examples, has_anti_patterns, line_count) ==
    [file_path |-> file_path, violations |-> violations,
     has_examples |-> has_examples, has_anti_patterns |-> has_anti_patterns,
     line_count |-> line_count]

CountSeverity(violations, severity) ==
    Len(SelectSeq(violations, LAMBDA v : v.severity = severity))

error_count(r) == CountSeverity(r.violations, "error")
\* mutant: the warnings are counted together with the infos
warning_count_WithInfo(r) ==
    CountSeverity(r.violations, "warning") + CountSeverity(r.violations, "info")

warning_count(r) == CountSeverity(r.violations, "warning")
info_count(r) == CountSeverity(r.violations, "info")

(***************************************************************************)
(* Files.  A file is its text, or unreadable: open() or the decoding       *)
(* raises.                                                                 *)
(***************************************************************************)
File(text) == [readable |-> TRUE, text |-> text]
Unreadable == [readable |-> FALSE, text |-> ""]

\* the positions at which the lines of a text end: every newline, and the
\* last character when the text does not end with one
LineEnds(text) ==
    {i \in 1..Len(text) : CharAt(text, i) = "\n"} \cup (IF text = "" THEN {} ELSE {Len(text)})

\* f.readlines(): the text cut after every newline
readlines(text) ==
    LET ends == LineEnds(text)
        end_of(k) == CHOOSE e \in ends : Cardinality({x \in ends : x <= e}) = k
    IN  [k \in 1..Cardinality(ends) |->
            SubSeq(text, IF k = 1 THEN 1 ELSE end_of(k - 1) + 1, end_of(k))]

\* SkillQualityChecker.check_file on a file
\* a variant that puts the example violations before the prose violations
ReportOf_ExamplesFirst(file_path, voice, example, anti, line_count) ==
    FileReport(file_path, example.violations \o voice \o anti.violations,
               example.has_examples, anti.has_anti_patterns, line_count)

\* the report of the results of the three checkers, lines 624-631
ReportOf(file_path, voice, example, anti, line_count) ==
    FileReport(file_path, voice \o example.violations \o anti.violations,
               example.has_examples, anti.has_anti_patterns, line_count)

\* the three checkers on the lines of a file, lines 616-631
CheckLines(file_path, lines, context) ==
    ReportOf(file_path,
             VoiceConsistencyChecker_check_file(context, file_path, lines),
             ExampleFormatChecker_check_file(context, file_path, lines),
             AntiPatternChecker_check_file(file_path, lines),
             Len(lines))

ReadAndCheck(file_path, lines) == CheckLines(file_path, lines, ContextDetector(lines))

\* a variant that turns a failed read into an error of the report
check_file_ReadErrorAsViolation(file_path, file) ==
    IF ~file.readable
    THEN FileReport(file_path,
                    <<Violation(file_path, 1, "", "read_error", "error",
                                "File could not be read", "", None)>>,
                    FALSE, FALSE, 0)
    ELSE ReadAndCheck(file_path, readlines(file.text))

check_file(file_path, file) ==
    IF ~file.readable
    THEN FileReport(file_path, <<>>, FALSE, FALSE, 0)
    ELSE ReadAndCheck(file_path, readlines(file.text))

(***************************************************************************)
(* Formatting                                                              *)
(***************************************************************************)
DIGITS == "0123456789"

\* str(n) and f"{n}" for an int n >= 0
RECURSIVE IntToStr(_)
IntToStr(n) ==
    IF n < 10 THEN CharAt(DIGITS, n + 1)
    ELSE IntToStr(n \div 10) \o CharAt(DIGITS, (n % 10) + 1)

RECURSIVE PadLeft(_, _)
PadLeft(str, width) == IF Len(str) >= width THEN str ELSE PadLeft(" " \o str, width)

\* f"{n:4d}"
Format4d(n) == PadLeft(IntToStr(n), 4)

UpperChar(c) ==
    IF c \in Chars(LOWER)
    THEN LET k == CHOOSE j \in 1..Len(LOWER) : SubSeq(LOWER, j, j) = c
         IN  SubSeq(UPPER, k, k)
    ELSE c

IsLetter(c) == c \in Chars(UPPER) \cup Chars(LOWER)

\* str.replace(old, new) for one character old
RECURSIVE Replace(_, _, _)
Replace(str, old, new) ==
    IF str = "" THEN ""
    ELSE (IF Head(str) = old THEN new ELSE Head(str)) \o Replace(Tail(str), old, new)

\* str.title(): a letter that follows no letter in upper case, the others in lower
RECURSIVE TitleFrom(_, _)
TitleFrom(str, after_letter) ==
    IF str = "" THEN ""
    ELSE LET c == Head(str)
         IN  (IF ~IsLetter(c) THEN c
              ELSE IF after_letter THEN LowerChar(c) ELSE UpperChar(c))
             \o TitleFrom(Tail(str), IsLetter(c))

Title(str) == TitleFrom(str, FALSE)

\* str(file_path): the files are numbered in the order of their paths
PathStr(file_path) == "skill" \o IntToStr(file_path) \o "/SKILL.md"

\* what the except branch of check_file prints to sys.stderr, line 634; the
\* text of the exception is left out
ErrorLog(file_path, file) ==
    IF file.readable THEN <<>> ELSE << "Error checking " \o PathStr(file_path) >>

RECURSIVE Sum(_)
Sum(ns) ==
    IF ns = <<>> THEN 0
    ELSE IF Len(ns) = 1 THEN ns[1]
    ELSE LET mid == Len(ns) \div 2
         IN  Sum(SubSeq(ns, 1, mid)) + Sum(SubSeq(ns, mid + 1, Len(ns)))

Rule80(c) == [i \in 1..80 |-> c]
RECURSIVE Cat(_)
Cat(strs) ==
    IF strs = <<>> THEN ""
    ELSE IF Len(strs) = 1 THEN strs[1]
    ELSE LET mid == Len(strs) \div 2
         IN  Cat(SubSeq(strs, 1, mid)) \o Cat(SubSeq(strs, mid + 1, Len(strs)))

(***************************************************************************)
(* Report generation.  A text is the list of the lines that the code joins *)
(* with newlines.                                                          *)
(***************************************************************************)
HasViolations(r) == r.violations /= <<>>

total_errors(rs) == Sum([i \in 1..Len(rs) |-> error_count(rs[i])])
total_warnings(rs) == Sum([i \in 1..Len(rs) |-> warning_count(rs[i])])
total_info(rs) == Sum([i \in 1..Len(rs) |-> info_count(rs[i])])
files_with_violations(rs) == Len(SelectSeq(rs, HasViolations))

generate_summary(rs) ==
    LET total_files == Len(rs)
        total_violations == total_errors(rs) + total_warnings(rs) + total_info(rs)
        files_with_examples == Len(SelectSeq(rs, LAMBDA r : r.has_examples))
        files_with_anti_patterns == Len(SelectSeq(rs, LAMBDA r : r.has_anti_patterns))
    IN  << Cat(Rule80("=")),
           "VOICE CONSISTENCY & EXAMPLE FORMAT REPORT",
           Cat(Rule80("=")),
           "Files checked: " \o IntToStr(total_files),
           "Files with violations: " \o IntToStr(files_with_violations(rs)),
           "",
           "Violations by severity:",
           "  Errors:   " \o Format4d(total_errors(rs)) \o "  (critical, blocks CI)",
           "  Warnings: " \o Format4d(total_warnings(rs)) \o "  (should fix)",
           "  Info:     " \o Format4d(total_info(rs)) \o "  (suggestions)",
           "  Total:    " \o Format4d(total_violations),
           "",
           "Quality metrics:",
           "  Files with (check)/(cross) examples: " \o IntToStr(files_with_examples)
               \o "/" \o IntToStr(total_files),
           "  Files with anti-patterns:  " \o IntToStr(files_with_anti_patterns)
               \o "/" \o IntToStr(total_files),
           Cat(Rule80("=")) >>

\* the order of str: by the code points of the characters (here the lower-case
\* letters and the underscore of the violation types)
CODE_ORDER == "_abcdefghijklmnopqrstuvwxyz"
CharCode(c) == CHOOSE j \in 1..Len(CODE_ORDER) : SubSeq(CODE_ORDER, j, j) = c

RECURSIVE StrLess(_, _)
StrLess(a, b) ==
    IF b = "" THEN FALSE
    ELSE IF a = "" THEN TRUE
    ELSE IF Head(a) = Head(b) THEN StrLess(Tail(a), Tail(b))
    ELSE CharCode(Head(a)) < CharCode(Head(b))

\* sorted() of strings: each element inserted into the sorted rest
RECURSIVE InsertStr(_, _)
InsertStr(x, sorted_seq) ==
    IF sorted_seq = <<>> THEN <<x>>
    ELSE IF StrLess(x, Head(sorted_seq)) THEN <<x>> \o sorted_seq
    ELSE <<Head(sorted_seq)>> \o InsertStr(x, Tail(sorted_seq))

RECURSIVE SortStrs(_)
SortStrs(seq) == IF seq = <<>> THEN <<>> ELSE InsertStr(Head(seq), SortStrs(Tail(seq)))

\* the keys of by_type, in the order in which setdefault adds them
RECURSIVE TypeKeys(_, _)
TypeKeys(violations, keys) ==
    IF violations = <<>> THEN keys
    ELSE LET t == Head(violations).violation_type
         IN  TypeKeys(Tail(violations),
                      IF \E k \in 1..Len(keys) : keys[k] = t THEN keys ELSE Append(keys, t))

\* the violation types of a report as sorted(by_type.items()) lists them
SortedTypes(violations) == SortStrs(TypeKeys(violations, <<>>))

OfType(violations, vtype) == SelectSeq(violations, LAMBDA v : v.violation_type = vtype)

\* violations[:n]
Slice(seq, n) ==
    IF n >= 0 THEN SubSeq(seq, 1, IF n < Len(seq) THEN n ELSE Len(seq))
    ELSE SubSeq(seq, 1, IF Len(seq) + n > 0 THEN Len(seq) + n ELSE 0)

severity_icon(v) ==
    IF v.severity = "error" THEN "(red)"
    ELSE IF v.severity = "warning" THEN "(yellow)" ELSE "(blue)"

DetailViolation(v, verbose) ==
    << "    " \o severity_icon(v) \o " Line " \o IntToStr(v.line_num) \o ": " \o v.message >>
    \o (IF v.matched_text /= None /\ v.matched_text /= Some("")
        THEN << "       Matched: \"" \o v.matched_text[1] \o "\"" >> ELSE <<>>)
    \o (IF v.suggestion /= "" THEN << "       Fix: " \o v.suggestion >> ELSE <<>>)
    \o (IF verbose /\ Strip(v.line_content) /= ""
        THEN << "       Context: " \o Strip(v.line_content) >> ELSE <<>>)
    \o << "" >>

DetailGroup(violations, vtype, max_violations_per_file, verbose) ==
    LET group == OfType(violations, vtype)
        shown == Slice(group, max_violations_per_file)
    IN  IF group = <<>> THEN <<>>
        ELSE << "\n  " \o Title(Replace(vtype, "_", " ")) \o " ("
                   \o IntToStr(Len(group)) \o "):" >>
             \o Concat([i \in 1..Len(shown) |-> DetailViolation(shown[i], verbose)])
             \o (IF Len(group) > max_violations_per_file
                 THEN << "    ... and "
                            \o IntToStr(Len(group) - max_violations_per_file)
                            \o " more", "" >>
                 ELSE <<>>)

DetailReport(r, max_violations_per_file, verbose) ==
    IF ~HasViolations(r) THEN <<>>
    ELSE << "\n(file) " \o PathStr(r.file_path),
            "   " \o IntToStr(error_count(r)) \o " errors, "
                \o IntToStr(warning_count(r)) \o " warnings, "
                \o IntToStr(info_count(r)) \o " info",
            Cat(Rule80("-")) >>
         \o LET types == SortedTypes(r.violations)
            IN  Concat([t \in 1..Len(types) |->
                    DetailGroup(r.violations, types[t], max_violations_per_file, verbose)])

generate_detail(rs, max_violations_per_file, verbose) ==
    Concat([i \in 1..Len(rs) |-> DetailReport(rs[i], max_violations_per_file, verbose)])

MARKDOWN_GROUP_LIMIT == 10

MarkdownViolation(v) ==
    << "- " \o severity_icon(v) \o " **Line " \o IntToStr(v.line_num) \o ":** " \o v.message >>
    \o (IF v.suggestion /= "" THEN << "  - *Fix:* " \o v.suggestion >> ELSE <<>>)
    \o << "" >>

MarkdownGroup(violations, vtype) ==
    LET group == OfType(violations, vtype)
        shown == Slice(group, MARKDOWN_GROUP_LIMIT)
    IN  IF group = <<>> THEN <<>>
        ELSE << "#### " \o Title(Replace(vtype, "_", " ")), "" >>
             \o Concat([i \in 1..Len(shown) |-> MarkdownViolation(shown[i])])

MarkdownReport(r) ==
    IF ~HasViolations(r) THEN <<>>
    ELSE << "### " \o PathStr(r.file_path), "",
            "**" \o IntToStr(error_count(r)) \o "** errors, **"
                \o IntToStr(warning_count(r)) \o "** warnings, **"
                \o IntToStr(info_count(r)) \o "** info",
            "" >>
         \o LET types == SortedTypes(r.violations)
            IN  Concat([t \in 1..Len(types) |-> MarkdownGroup(r.violations, types[t])])

generate_markdown(rs) ==
    << "# Voice Consistency & Example Format Report", "", "## Summary", "",
       "- **Files checked:** " \o IntToStr(Len(rs)),
       "- **Files with violations:** " \o IntToStr(files_with_violations(rs)),
       "- **Errors:** " \o IntToStr(total_errors(rs)) \o " (critical)",
       "- **Warnings:** " \o IntToStr(total_warnings(rs)),
       "- **Info:** " \o IntToStr(total_info(rs)),
       "", "## Violations by File", "" >>
    \o Concat([i \in 1..Len(rs) |-> MarkdownReport(rs[i])])

\* Violation.to_dict
to_dict(v) ==
    [file |-> PathStr(v.file_path), line |-> IntToStr(v.line_num),
     content |-> Strip(v.line_content), type |-> v.violation_type,
     severity |-> v.severity, message |-> v.message,
     suggestion |-> v.suggestion, matched_text |-> v.matched_text]

JsonFile(r) ==
    [path |-> PathStr(r.file_path),
     violations |-> [i \in 1..Len(r.violations) |-> to_dict(r.violations[i])],
     error_count |-> IntToStr(error_count(r)),
     warning_count |-> IntToStr(warning_count(r)),
     info_count |-> IntToStr(info_count(r))]

\* mutant: the files array holds every report
generate_json_EveryReport(rs) ==
    [summary |->
        [total_files |-> IntToStr(Len(rs)),
         files_with_violations |-> IntToStr(files_with_violations(rs)),
         total_errors |-> IntToStr(total_errors(rs)),
         total_warnings |-> IntToStr(total_warnings(rs)),
         total_info |-> IntToStr(total_info(rs))],
     files |-> [i \in 1..Len(rs) |-> JsonFile(rs[i])]]

\* the document that json.dumps writes: objects are records, arrays are
\* sequences, and a number is the decimal text that stands in the output
generate_json(rs) ==
    LET with_violations == SelectSeq(rs, HasViolations)
    IN  [summary |->
            [total_files |-> IntToStr(Len(rs)),
             files_with_violations |-> IntToStr(files_with_violations(rs)),
             total_errors |-> IntToStr(total_errors(rs)),
             total_warnings |-> IntToStr(total_warnings(rs)),
             total_info |-> IntToStr(total_info(rs))],
         files |-> [i \in 1..Len(with_violations) |-> JsonFile(with_violations[i])]]

(***************************************************************************)
(* The command line driver, main().  Of the arguments, --verbose and       *)
(* --report are left at their defaults (off).                              *)
(***************************************************************************)
\* mutant: the exit code of get_exit_code (lines 653-656), which ignores --ci
ExitCode_IgnoresCi(rs, ci) == IF total_errors(rs) > 0 THEN 1 ELSE 0

\* the exit code of main (lines 781-788)
ExitCode(rs, ci) ==
    IF total_errors(rs) > 0 THEN 1
    ELSE IF ci /\ total_warnings(rs) > 0 THEN 1
    ELSE 0

\* the message that follows the report in text mode (lines 764-772)
StatusMessage(rs) ==
    IF total_errors(rs) = 0 /\ total_warnings(rs) = 0
    THEN "\n(check) All checks passed! Skills maintain high quality standards."
    ELSE IF total_errors(rs) = 0
    THEN "\n(warning)  " \o IntToStr(total_warnings(rs))
             \o " warnings found. Consider fixing for better quality."
    ELSE "\n(cross) " \o IntToStr(total_errors(rs)) \o " errors found. Fix before merging."

NoJson == <<>>
NoOutput == [format |-> "", text |-> <<>>, json |-> NoJson]

\* what main prints (lines 748-772)
Printed(rs, a) ==
    IF a.format = "json"
    THEN [format |-> "json", text |-> <<>>, json |-> generate_json(rs)]
    ELSE IF a.format = "markdown"
    THEN [format |-> "markdown", text |-> generate_markdown(rs), json |-> NoJson]
    ELSE [format |-> "text",
          text |-> generate_summary(rs)
                   \o (IF rs /= <<>> /\ \E i \in 1..Len(rs) : HasViolations(rs[i])
                       THEN generate_detail(rs, a.max_violations, FALSE)
                       ELSE <<>>)
                   \o << StatusMessage(rs) >>,
          json |-> NoJson]

\* sorted() of paths
RECURSIVE InsertPath(_, _)
InsertPath(x, sorted_seq) ==
    IF sorted_seq = <<>> THEN <<x>>
    ELSE IF x < Head(sorted_seq) THEN <<x>> \o sorted_seq
    ELSE <<Head(sorted_seq)>> \o InsertPath(x, Tail(sorted_seq))

RECURSIVE SortPaths(_)
SortPaths(seq) == IF seq = <<>> THEN <<>> ELSE InsertPath(Head(seq), SortPaths(Tail(seq)))

\* mutant: the files are scanned in the order of the glob
sorted_Unsorted(paths) == paths

sorted(paths) == SortPaths(paths)

\* directory.glob(pattern) yields the files of the directory in an order that
\* the file system chooses
GlobOrders(files) ==
    LET n == Cardinality(DOMAIN files)
    IN  {order \in [1..n -> DOMAIN files] :
            \A i, j \in 1..n : i /= j => order[i] /= order[j]}

(***************************************************************************)
(* package_skill.py.  A skill directory holds SKILL.md, metadata.json and  *)
(* a references directory; metadata.json is given by what json.loads makes *)
(* of it.  What the functions print is left out.                           *)
(***************************************************************************)
SKILL_PATH == "toolchains/python/django"

NoFile == [kind |-> "absent", text |-> ""]
UnreadableFile == [kind |-> "unreadable", text |-> ""]
TextFile(text) == [kind |-> "text", text |-> text]

\* metadata.json: absent, unreadable, no JSON, a JSON array, or a JSON object
\* given as the set of its <<field, value>> pairs
NoMetadata == [kind |-> "absent", fields |-> {}]
UnreadableMetadata == [kind |-> "unreadable", fields |-> {}]
InvalidJson == [kind |-> "invalid", fields |-> {}]
JsonArray == [kind |-> "array", fields |-> {}]
JsonObject(fields) == [kind |-> "object", fields |-> fields]

\* a directory as the set of the names of its files, or no directory
NoDir == <<>>
Dir(names) == <<names>>

SkillDir(kind, skill_md, metadata, references) ==
    [kind |-> kind, skill_md |-> skill_md, metadata |-> metadata, references |-> references]

\* a skill path that does not exist
NoSkill == SkillDir("missing", NoFile, NoMetadata, NoDir)

TargetDir(exists, skill_md, metadata, references) ==
    [exists |-> exists, skill_md |-> skill_md, metadata |-> metadata, references |-> references]

NoTarget == TargetDir(FALSE, NoFile, NoMetadata, NoDir)

Validation(errors_, warnings_, value, raised) ==
    [errors |-> errors_, warnings |-> warnings_, value |-> value, raised |-> raised]

\* count_tokens without tiktoken: len(text) // 4
count_tokens(text) == Len(text) \div 4

TOKENS_TOO_SHORT == 100
TOKENS_VERY_LARGE == 20000

\* re.match(r"^---\s*\n(.*?)\n---", content, re.DOTALL): the newline that ends
\* the first line, after white space only
FrontmatterStarts(content) ==
    {p \in 4..Len(content) :
        /\ CharAt(content, p) = "\n"
        /\ \A q \in 4..(p - 1) : CharAt(content, q) \in SpaceChars}

\* the places after such a newline at which a newline and --- follow
FrontmatterEnds(content, p) ==
    {q \in (p + 1)..(Len(content) - 3) : SubSeq(content, q, q + 3) = "\n---"}

HasFrontmatter(content) ==
    /\ StartsWith(content, "---")
    /\ \E p \in FrontmatterStarts(content) : FrontmatterEnds(content, p) /= {}

\* match.group(1): \s* takes as much as it can, .*? as little as it can
FrontmatterOf(content) ==
    LET p == Max({x \in FrontmatterStarts(content) : FrontmatterEnds(content, x) /= {}})
    IN  SubSeq(content, p + 1, Min(FrontmatterEnds(content, p)) - 1)

SkillMdWarnings(content, frontmatter, tokens) ==
    (IF ~Occurs("name:", frontmatter)
     THEN << "SKILL.md frontmatter missing 'name' field" >> ELSE <<>>)
    \o (IF ~Occurs("description:", frontmatter)
        THEN << "SKILL.md frontmatter missing 'description' field" >> ELSE <<>>)
    \o (IF ~Occurs("progressive_disclosure:", content)
        THEN << "SKILL.md missing progressive_disclosure section" >> ELSE <<>>)
    \o (IF tokens < TOKENS_TOO_SHORT
        THEN << "SKILL.md seems too short (" \o IntToStr(tokens) \o " tokens)" >>
        ELSE IF tokens > TOKENS_VERY_LARGE
        THEN << "SKILL.md is very large (" \o IntToStr(tokens)
                   \o " tokens) - consider splitting" >>
        ELSE <<>>)

\* SkillValidator.validate_skill_md: the errors and warnings it adds, and what
\* it returns
validate_skill_md(skill_md) ==
    IF skill_md.kind = "absent"
    THEN Validation(<< "SKILL.md not found in " \o SKILL_PATH >>, <<>>, FALSE, FALSE)
    ELSE IF skill_md.kind = "unreadable"
    THEN Validation(<< "Cannot read SKILL.md" >>, <<>>, FALSE, FALSE)
    ELSE IF ~StartsWith(skill_md.text, "---")
    THEN Validation(<< "SKILL.md missing frontmatter (should start with ---)" >>,
                    <<>>, FALSE, FALSE)
    ELSE IF ~HasFrontmatter(skill_md.text)
    THEN Validation(<< "SKILL.md has malformed frontmatter" >>, <<>>, FALSE, FALSE)
    ELSE Validation(<<>>,
                    SkillMdWarnings(skill_md.text, FrontmatterOf(skill_md.text),
                                    count_tokens(skill_md.text)),
                    TRUE, FALSE)

\* field in metadata, and metadata.get(field, "")
HasField(fields, field) == \E kv \in fields : kv[1] = field
GetField(fields, field) ==
    IF HasField(fields, field) THEN (CHOOSE kv \in fields : kv[1] = field)[2] ELSE ""

REQUIRED_FIELDS == << "name", "version", "category" >>
RECOMMENDED_FIELDS == << "toolchain", "tags", "entry_point_tokens", "full_tokens" >>
VALID_CATEGORIES == { "toolchain", "universal", "example" }

MissingFields(fields, wanted, message) ==
    Concat([k \in 1..Len(wanted) |->
        IF HasField(fields, wanted[k]) THEN <<>> ELSE << message \o wanted[k] >>])

AllDigits(str) == str /= "" /\ \A p \in 1..Len(str) : CharAt(str, p) \in Chars(DIGITS)

\* re.match(r"^\d+\.\d+\.\d+$", version), for a version without a newline
IsSemver(version) ==
    \E a, b \in 2..(Len(version) - 1) :
        /\ a < b
        /\ CharAt(version, a) = "." /\ CharAt(version, b) = "."
        /\ AllDigits(SubSeq(version, 1, a - 1))
        /\ AllDigits(SubSeq(version, a + 1, b - 1))
        /\ AllDigits(SubSeq(version, b + 1, Len(version)))

ObjectWarnings(fields) ==
    MissingFields(fields, RECOMMENDED_FIELDS, "metadata.json missing recommended field: ")
    \o (IF GetField(fields, "version") /= "" /\ ~IsSemver(GetField(fields, "version"))
        THEN << "metadata.json version '" \o GetField(fields, "version")
                   \o "' not in semver format" >>
        ELSE <<>>)
    \o (IF GetField(fields, "category") /= ""
           /\ GetField(fields, "category") \notin VALID_CATEGORIES
        THEN << "metadata.json category '" \o GetField(fields, "category")
                   \o "' not recognized" >>
        ELSE <<>>)

\* SkillValidator.validate_metadata_json.  On a JSON array the tests
\* "field not in metadata" find every field missing and metadata.get raises
\* AttributeError.
validate_metadata_json(metadata) ==
    IF metadata.kind = "absent"
    THEN Validation(<<>>, << "metadata.json not found in " \o SKILL_PATH >>, FALSE, FALSE)
    ELSE IF metadata.kind = "invalid"
    THEN Validation(<< "metadata.json is not valid JSON" >>, <<>>, FALSE, FALSE)
    ELSE IF metadata.kind = "unreadable"
    THEN Validation(<< "Cannot read metadata.json" >>, <<>>, FALSE, FALSE)
    ELSE IF metadata.kind = "array"
    THEN Validation(MissingFields({}, REQUIRED_FIELDS, "metadata.json missing required field: "),
                    MissingFields({}, RECOMMENDED_FIELDS,
                                  "metadata.json missing recommended field: "),
                    FALSE, TRUE)
    ELSE Validation(MissingFields(metadata.fields, REQUIRED_FIELDS,
                                  "metadata.json missing required field: "),
                    ObjectWarnings(metadata.fields), TRUE, FALSE)

\* the components of validate_skill put together; no metadata of the model
\* declares full_tokens, so that no token count mismatch is reported
ValidatedSkill(md, meta) ==
    Validation(md.errors \o meta.errors, md.warnings \o meta.warnings,
               ~meta.raised /\ md.errors \o meta.errors = <<>>, meta.raised)

\* SkillValidator.validate_skill: the errors and warnings after reset(), and
\* what it returns
validate_skill(skill_path) ==
    IF skill_path.kind = "missing"
    THEN Validation(<< "Skill path does not exist: " \o SKILL_PATH >>, <<>>, FALSE, FALSE)
    ELSE IF skill_path.kind /= "dir"
    THEN Validation(<< "Skill path is not a directory: " \o SKILL_PATH >>, <<>>, FALSE, FALSE)
    ELSE ValidatedSkill(validate_skill_md(skill_path.skill_md),
                        validate_metadata_json(skill_path.metadata))

\* mkdir, copy2 of SKILL.md, copy2 of metadata.json if it exists, rmtree and
\* copytree of references if it exists
CopySkill(skill_path, target) ==
    TargetDir(TRUE,
              skill_path.skill_md,
              IF skill_path.metadata.kind /= "absent" THEN skill_path.metadata
              ELSE target.metadata,
              IF skill_path.references /= NoDir THEN skill_path.references
              ELSE target.references)

Packaged(validated, value, target) ==
    [errors |-> validated.errors, warnings |-> validated.warnings,
     result |-> value, target_dir |-> target]

\* a variant that copies before it looks at dry_run
PackageValidated_DryRunWrites(validated, skill_path, target, force, dry_run) ==
    IF validated.raised THEN Packaged(validated, "raised", target)
    ELSE IF ~validated.value THEN Packaged(validated, "False", target)
    ELSE IF target.exists /\ ~force THEN Packaged(validated, "False", target)
    ELSE Packaged(validated, "True", CopySkill(skill_path, target))

PackageValidated(validated, skill_path, target, force, dry_run) ==
    IF validated.raised THEN Packaged(validated, "raised", target)
    ELSE IF ~validated.value THEN Packaged(validated, "False", target)
    ELSE IF target.exists /\ ~force THEN Packaged(validated, "False", target)
    ELSE IF dry_run THEN Packaged(validated, "True", target)
    ELSE Packaged(validated, "True", CopySkill(skill_path, target))

\* SkillPackager.package_skill: the validator's errors and warnings, what the
\* call returns ("raised" when it raises) and the target directory after it
package_skill(skill_path, target, force, dry_run) ==
    PackageValidated(validate_skill(skill_path), skill_path, target, force, dry_run)

\* no call of package_skill yet
NoCall == [force |-> FALSE, dry_run |-> FALSE, target_before |-> NoTarget]

PackagerIdle ==
    /\ skill_dir = NoSkill
    /\ target_dir = NoTarget
    /\ errors = <<>>
    /\ warnings = <<>>
    /\ result = "none"
    /\ last_call = NoCall
    /\ calls = 0

(***************************************************************************)
(* scripts/fix_metadata.py.  A skill is a directory with a path, SKILL.md, *)
(* the files of references/ and metadata.json.  metadata.json is absent,   *)
(* no JSON, a JSON array, or a JSON object given as the sequence of its    *)
(* <<key, value>> pairs in the order of the file (the order of the dict    *)
(* that json.loads returns); layout tells whether the text of the file is  *)
(* the one that json.dumps(indent=2) with a final newline writes.          *)
(* count_tokens is the fallback of the script, len(text) // 4.             *)
(***************************************************************************)
JNull == [t |-> "null", n |-> 0, s |-> ""]
JInt(n) == [t |-> "int", n |-> n, s |-> ""]
JStr(str) == [t |-> "str", n |-> 0, s |-> str]

MetaFile(kind, items, layout) == [kind |-> kind, items |-> items, layout |-> layout]
NoMetaFile == MetaFile("absent", <<>>, "")

Skill(path, skill_md, references, metadata) ==
    [path |-> path, skill_md |-> skill_md, references |-> references, metadata |-> metadata]

\* key in metadata, metadata.get(key, default), metadata[key] = value
DictHas(items, key) == \E k \in 1..Len(items) : items[k][1] = key

DictGet(items, key, default) ==
    IF DictHas(items, key)
    THEN items[CHOOSE k \in 1..Len(items) : items[k][1] = key][2]
    ELSE default

DictSet(items, key, value) ==
    IF DictHas(items, key)
    THEN [k \in 1..Len(items) |-> IF items[k][1] = key THEN <<key, value>> ELSE items[k]]
    ELSE Append(items, <<key, value>>)

Abs(n) == IF n < 0 THEN -n ELSE n

EndsWith(str, suffix) ==
    Len(str) >= Len(suffix) /\ SubSeq(str, Len(str) - Len(suffix) + 1, Len(str)) = suffix

\* str.split(sep) for a separator of one character
RECURSIVE Split(_, _)
Split(str, sep) ==
    LET seps == {k \in 1..Len(str) : CharAt(str, k) = sep}
    IN  IF seps = {} THEN << str >>
        ELSE << SubSeq(str, 1, Min(seps) - 1) >>
             \o Split(SubSeq(str, Min(seps) + 1, Len(str)), sep)

\* the end of the run of white space that starts at position from
WsRunEnd(text, from) ==
    Min({k \in from..Len(text) : CharAt(text, k) \notin SpaceChars} \cup {Len(text) + 1})

\* \s*\n(.*?) followed by one of the given ends, entered at position from:
\* the group starts after a newline of the white space that starts there,
\* the last one that has an end at or after it, and ends at the first such end
LazyGroup(text, from, ends) ==
    LET starts == {k + 1 : k \in {j \in from..(WsRunEnd(text, from) - 1) : CharAt(text, j) = "\n"}}
        usable == {g \in starts : \E e \in ends : e >= g}
    IN  IF usable = {} THEN None
        ELSE Some(SubSeq(text, Max(usable), Min({e \in ends : e >= Max(usable)}) - 1))

LitHere(text, p, lit) ==
    p >= 1 /\ p + Len(lit) - 1 <= Len(text) /\ SubSeq(text, p, p + Len(lit) - 1) = lit

\* (?=\n\s*(?:references:|token_estimate:|---|\n\n[A-Z#])) at position e
EntryPointEnds(text) ==
    {e \in 1..Len(text) :
        /\ CharAt(text, e) = "\n"
        /\ \/ \E lit \in {"references:", "token_estimate:", "---"} :
                 LitHere(text, WsRunEnd(text, e + 1), lit)
           \/ \E m \in (e + 1)..WsRunEnd(text, e + 1) :
                 /\ LitHere(text, m, "\n\n")
                 /\ m + 2 <= Len(text)
                 /\ CharAt(text, m + 2) \in Chars(UPPER) \cup {"#"}}

\* the group of the first expression for a match that starts at position p
EntryPointAt(text, p) ==
    LET a == p + Len("progressive_disclosure:")
        b == WsRunEnd(text, a)
        c == b + Len("entry_point:")
    IN  IF /\ LitHere(text, p, "progressive_disclosure:")
           /\ \E k \in a..(b - 1) : CharAt(text, k) = "\n"
           /\ LitHere(text, b, "entry_point:")
        THEN LazyGroup(text, c, EntryPointEnds(text))
        ELSE None

\* the group of re.match(r'^---\s*\n(.*?)\n---', content, re.DOTALL)
FrontmatterGroup(text) ==
    IF LitHere(text, 1, "---")
    THEN LazyGroup(text, 4, {e \in 1..Len(text) : LitHere(text, e, "\n---")})
    ELSE None

ENTRY_POINT_DEFAULT == 85

extract_entry_point_tokens(skill_md_content) ==
    LET found == {p \in 1..Len(skill_md_content) : EntryPointAt(skill_md_content, p) /= None}
    IN  IF found /= {}
        THEN count_tokens(EntryPointAt(skill_md_content, Min(found))[1])
        ELSE IF FrontmatterGroup(skill_md_content) /= None
        THEN count_tokens(FrontmatterGroup(skill_md_content)[1])
        ELSE ENTRY_POINT_DEFAULT

\* the position of a part, 0 when the path has no such part
IndexOf(parts, part) ==
    IF \E k \in 1..Len(parts) : parts[k] = part
    THEN Min({k \in 1..Len(parts) : parts[k] = part})
    ELSE 0

\* (toolchain, should_set_explicit_null); no toolchain is None
get_toolchain_from_path(skill_path) ==
    LET parts == Split(skill_path, "/")
        idx == IndexOf(parts, "toolchains")
    IN  IF IndexOf(parts, "universal") > 0 THEN << None, TRUE >>
        ELSE IF idx > 0 /\ idx + 1 <= Len(parts)
        THEN (IF parts[idx + 1] = "platforms" THEN << None, TRUE >>
              ELSE << Some(parts[idx + 1]), FALSE >>)
        ELSE << None, FALSE >>

\* the tokens of SKILL.md and of the .md files of references/
ActualTokens(sk) ==
    count_tokens(sk.skill_md.text)
    + Sum([k \in 1..Len(sk.references) |->
              IF EndsWith(sk.references[k].name, ".md")
              THEN count_tokens(sk.references[k].text) ELSE 0])

Fixing(metadata, fixes) == [metadata |-> metadata, fixes |-> fixes]

\* Fix 1: full_tokens (lines 86-101)
FixFullTokens(sk, st) ==
    LET actual_tokens == ActualTokens(sk)
        declared == DictGet(st.metadata, "full_tokens", JInt(0)).n
    IN  IF sk.skill_md.kind = "text"
           /\ (declared = 0 \/ 10 * Abs(declared - actual_tokens) > declared)
        THEN Fixing(DictSet(st.metadata, "full_tokens", JInt(actual_tokens)),
                    Append(st.fixes, "full_tokens: " \o IntToStr(declared)
                                         \o " -> " \o IntToStr(actual_tokens)))
        ELSE st

\* Fix 2: entry_point_tokens (lines 103-108)
FixEntryPointTokens(sk, st) ==
    IF ~DictHas(st.metadata, "entry_point_tokens") /\ sk.skill_md.kind = "text"
    THEN Fixing(DictSet(st.metadata, "entry_point_tokens",
                        JInt(extract_entry_point_tokens(sk.skill_md.text))),
                Append(st.fixes, "entry_point_tokens: added ("
                                     \o IntToStr(extract_entry_point_tokens(sk.skill_md.text))
                                     \o ")"))
    ELSE st

\* Fix 3: toolchain (lines 110-118); an empty toolchain counts as none
FixToolchain(sk, st) ==
    LET found == get_toolchain_from_path(sk.path)
    IN  IF DictHas(st.metadata, "toolchain") THEN st
        ELSE IF found[1] /= None /\ found[1] /= Some("")
        THEN Fixing(DictSet(st.metadata, "toolchain", JStr(found[1][1])),
                    Append(st.fixes, "toolchain: added (" \o found[1][1] \o ")"))
        ELSE IF found[2]
        THEN Fixing(DictSet(st.metadata, "toolchain", JNull),
                    Append(st.fixes, "toolchain: set to null (cross-language skill)"))
        ELSE st

\* Fix 4: category (lines 120-123)
FixCategory(sk, st) ==
    IF DictGet(st.metadata, "category", JNull) = JStr("platform")
    THEN Fixing(DictSet(st.metadata, "category", JStr("toolchain")),
                Append(st.fixes, "category: platform -> toolchain"))
    ELSE st

ordered_keys ==
    << "name", "version", "category", "toolchain", "framework", "tags",
       "entry_point_tokens", "full_tokens", "related_skills", "author", "license" >>

\* the dict that is written: the known keys in their order, then the others
Reordered(items) ==
    SelectSeq([k \in 1..Len(ordered_keys) |->
                  << ordered_keys[k], DictGet(items, ordered_keys[k], JNull) >>],
              LAMBDA kv : DictHas(items, kv[1]))
    \o SelectSeq(items, LAMBDA kv : \A k \in 1..Len(ordered_keys) : ordered_keys[k] /= kv[1])

Written(items) == MetaFile("object", Reordered(items), "indent2")

Fixed(fixes, raised, metadata) == [fixes |-> fixes, raised |-> raised, metadata |-> metadata]

\* the four fixes, one after the other
FixAll(sk) ==
    FixCategory(sk, FixToolchain(sk, FixEntryPointTokens(sk,
        FixFullTokens(sk, Fixing(sk.metadata.items, <<>>)))))

\* mutant: the file is written whenever there is a fix
WriteFixed_AlsoInDryRun(sk, st, dry_run) ==
    IF st.fixes /= <<>>
    THEN Fixed(st.fixes, FALSE, Written(st.metadata))
    ELSE Fixed(st.fixes, FALSE, sk.metadata)

\* the write of lines 126-145 and the return
WriteFixed(sk, st, dry_run) ==
    IF st.fixes /= <<>> /\ ~dry_run
    THEN Fixed(st.fixes, FALSE, Written(st.metadata))
    ELSE Fixed(st.fixes, FALSE, sk.metadata)

\* fix_skill_metadata: the list it returns, whether it raises, and
\* metadata.json after the call.  On a JSON array the first use of the value
\* as a dict raises (metadata.get, or metadata['toolchain'] = ...).
fix_skill_metadata(sk, dry_run) ==
    IF sk.metadata.kind = "absent" THEN Fixed(<<>>, FALSE, sk.metadata)
    ELSE IF sk.metadata.kind = "invalid"
    THEN Fixed(<< "ERROR: Invalid JSON in " \o sk.path \o "/metadata.json" >>, FALSE, sk.metadata)
    ELSE IF sk.metadata.kind = "array" THEN Fixed(<<>>, TRUE, sk.metadata)
    ELSE WriteFixed(sk, FixAll(sk), dry_run)

\* no run of fix_metadata.py
FixerIdle ==
    /\ skill = Skill("", NoFile, <<>>, NoMetaFile)
    /\ fix_log = <<>>

(***************************************************************************)
(* SkillPackager.get_flat_name and the order of the skills of a run.  A    *)
(* path is the string that str(path) gives.                                *)
(***************************************************************************)
\* str.replace(old, new): the occurrences of old from left to right, none
\* overlapping another
RECURSIVE ReplaceStr(_, _, _)
ReplaceStr(str, old, new) ==
    IF Len(str) < Len(old) THEN str
    ELSE IF SubSeq(str, 1, Len(old)) = old
    THEN new \o ReplaceStr(SubSeq(str, Len(old) + 1, Len(str)), old, new)
    ELSE SubSeq(str, 1, 1) \o ReplaceStr(SubSeq(str, 2, Len(str)), old, new)

\* skill_path.relative_to(repo_root): None when it raises ValueError
relative_to(skill_path, repo_root) ==
    IF skill_path = repo_root THEN Some(".")
    ELSE IF StartsWith(skill_path, repo_root \o "/")
    THEN Some(SubSeq(skill_path, Len(repo_root) + 2, Len(skill_path)))
    ELSE None

get_flat_name(repo_root, skill_path) ==
    LET relative == IF relative_to(skill_path, repo_root) /= None
                    THEN relative_to(skill_path, repo_root)[1]
                    ELSE skill_path
    IN  ReplaceStr(ReplaceStr(ReplaceStr(relative, "/", "-"), "\\", "-"), "-SKILL.md", "")

\* the order of the characters of the paths
PATH_CODE_ORDER == "-.ABCDEFGHIJKLMNOPQRSTUVWXYZ_abcdefghijklmnopqrstuvwxyz"
PathCharCode(c) == CHOOSE j \in 1..Len(PATH_CODE_ORDER) : SubSeq(PATH_CODE_ORDER, j, j) = c

RECURSIVE PartLess(_, _)
PartLess(a, b) ==
    IF b = "" THEN FALSE
    ELSE IF a = "" THEN TRUE
    ELSE IF Head(a) = Head(b) THEN PartLess(Tail(a), Tail(b))
    ELSE PathCharCode(Head(a)) < PathCharCode(Head(b))

\* Path.__lt__: the paths are compared part by part
RECURSIVE PartsLess(_, _)
PartsLess(a, b) ==
    IF b = <<>> THEN FALSE
    ELSE IF a = <<>> THEN TRUE
    ELSE IF Head(a) = Head(b) THEN PartsLess(Tail(a), Tail(b))
    ELSE PartLess(Head(a), Head(b))

PathLess(a, b) == PartsLess(Split(a, "/"), Split(b, "/"))

\* sorted(set(skills)) of find_skills
SortedSkills(paths) ==
    CHOOSE seq \in [1..Cardinality(paths) -> paths] :
        \A i, j \in 1..Cardinality(paths) : i < j => PathLess(seq[i], seq[j])

(***************************************************************************)
(* Inputs                                                                  *)
(***************************************************************************)
MaxLines == 4
MaxCorpusLines == 2
MaxLongHead == 1
MaxFiles == 2

Seqs(S, n) == UNION {[1..k -> S] : k \in 0..n}

\* documents of fences, front matter markers and prose
StructLines == { FENCE \o "\n", "---\n", " ---\n", "If you\n" }

\* one line of every kind the checkers tell apart
Corpus == { FENCE \o "python\n",
            FENCE \o " you should\n",
            "x " \o FENCE \o "\n",
            "---\n",
            "You should always validate input.\n",
            "You should do X. You must do Y.\n",
            "> you must\n",
            "| you can |\n",
            "Use " \o BACKTICK \o "x" \o BACKTICK \o " if you\n",
            "- **a**: you can\n",
            "# when you\n",
            CHECKMARK \o " Good\n",
            CHECKMARK \o " Use " \o BACKTICK \o "x" \o BACKTICK \o "\n",
            CROSSMARK \o " Bad\n",
            "Avoid it\n",
            "It is used.\n",
            "Let's go, let's try\n",
            "\n" }

LongHeadLines == { "---\n", "Avoid it\n", "If you\n" }

BlankLines(n) == Cat([i \in 1..n |-> "\n"])

StructTexts == {Cat(d) : d \in Seqs(StructLines, MaxLines)}
LineTexts == {Cat(d) : d \in Seqs(Corpus, MaxCorpusLines)}
LongTexts == {Cat(h) \o BlankLines(n) :
                 h \in Seqs(LongHeadLines, MaxLongHead),
                 n \in {ANTI_PATTERN_MIN_LINES - 1, ANTI_PATTERN_MIN_LINES}}

\* documents with and without the words that AntiPatternChecker looks for
AntiPatternTexts ==
    { "An anti-pattern\n", "An Anti pattern\n", "An antipattern\n",
      "anti\n" \o "pattern\n",
      CROSSMARK \o " This is WRONG\n", "wrong " \o CROSSMARK \o "\n",
      CROSSMARK \o " Bad\n" \o "wrong\n",
      "Don't do it\n", "dont do it\n", "Do not do it\n", "plain\n" }

FileTexts == StructTexts \cup LineTexts \cup LongTexts \cup AntiPatternTexts

\* the files of a scanned directory: unreadable, or with an error, a warning,
\* an info violation, none, or several of each kind
SmallFiles == { Unreadable, File("If you\n"), File("It is used.\n"),
                File("Let's go\n"), File("plain\n"),
                File("You should do X. You must do Y.\nIt is used.\nLet's go\n") }

DefaultArgs == [ci |-> FALSE, format |-> "text", max_violations |-> 10]

ArgChoices == [ci : BOOLEAN, format : {"text", "json", "markdown"},
               max_violations : {-1, 0, 1, 10}]

DirChoices == UNION {[1..n -> SmallFiles] : n \in 0..MaxFiles}

(***************************************************************************)
(* The state machine                                                       *)
(***************************************************************************)
NoExit == -1

\* no run of package_skill.py over several skills
BatchIdle ==
    /\ batch = [skills |-> <<>>, force |-> FALSE, dry_run |-> FALSE]
    /\ target_root = <<>>
    /\ batch_log = <<>>
    /\ batch_exit = NoExit

Start(f, a) ==
    /\ fs = f
    /\ args = a
    /\ pc = "start"
    /\ skill_files = <<>>
    /\ reports = <<>>
    /\ output = NoOutput
    /\ exit_code = NoExit
    /\ run = 1
    /\ prev_output = NoOutput
    /\ stderr = <<>>
    /\ PackagerIdle
    /\ FixerIdle
    /\ BatchIdle

\* main on a directory, on a file or on a path that does not exist, with any
\* arguments
Init ==
    \E a \in ArgChoices :
        \/ \E files \in DirChoices : Start([kind |-> "dir", files |-> files], a)
        \/ \E file \in SmallFiles : Start([kind |-> "file", files |-> <<file>>], a)
        \/ Start([kind |-> "missing", files |-> <<>>], a)

\* check_file on one file of any text
InitFile ==
    \E text \in FileTexts :
        Start([kind |-> "file", files |-> <<File(text)>>], DefaultArgs)

\* main, check_path.is_file(): lines 737-738
CheckPath ==
    /\ pc = "start"
    /\ fs.kind = "file"
    /\ reports' = Append(reports, check_file(1, fs.files[1]))
    /\ stderr' = stderr \o ErrorLog(1, fs.files[1])
    /\ pc' = "report"
    /\ UNCHANGED <<fs, args, skill_files, output, exit_code, run, prev_output, packager_vars, fixer_vars, batch_vars>>

\* check_directory, lines 640-643; is_file() is false for a directory and for
\* a path that does not exist, and glob yields nothing under such a path
CheckDirectory ==
    /\ pc = "start"
    /\ fs.kind /= "file"
    /\ \E order \in GlobOrders(fs.files) :
          skill_files' = sorted(order)
    /\ pc' = IF DOMAIN fs.files = {} THEN "report" ELSE "scan"
    /\ UNCHANGED <<fs, args, reports, output, exit_code, run, prev_output, stderr, packager_vars, fixer_vars, batch_vars>>

\* a variant in which the checkers keep one list of violations for all files
CheckNextFile_SharedList ==
    /\ pc = "scan"
    /\ skill_files /= <<>>
    /\ reports' = [k \in 1..(Len(reports) + 1) |->
                      [check_file(Head(skill_files), fs.files[Head(skill_files)])
                         EXCEPT !.violations =
                            (IF reports = <<>> THEN <<>> ELSE reports[Len(reports)].violations)
                            \o @]]
    /\ stderr' = stderr \o ErrorLog(Head(skill_files), fs.files[Head(skill_files)])
    /\ skill_files' = Tail(skill_files)
    /\ pc' = IF Tail(skill_files) = <<>> THEN "report" ELSE "scan"
    /\ UNCHANGED <<fs, args, output, exit_code, run, prev_output, packager_vars, fixer_vars, batch_vars>>

\* check_directory, one iteration of the loop of lines 645-649
CheckNextFile ==
    /\ pc = "scan"
    /\ skill_files /= <<>>
    /\ reports' = Append(reports, check_file(Head(skill_files), fs.files[Head(skill_files)]))
    /\ stderr' = stderr \o ErrorLog(Head(skill_files), fs.files[Head(skill_files)])
    /\ skill_files' = Tail(skill_files)
    /\ pc' = IF Tail(skill_files) = <<>> THEN "report" ELSE "scan"
    /\ UNCHANGED <<fs, args, output, exit_code, run, prev_output, packager_vars, fixer_vars, batch_vars>>

\* main, lines 745-788: the report is printed and the process exits
Report ==
    /\ pc = "report"
    /\ output' = Printed(reports, args)
    /\ exit_code' = ExitCode(reports, args.ci)
    /\ pc' = "done"
    /\ UNCHANGED <<fs, args, skill_files, reports, run, prev_output, stderr, packager_vars, fixer_vars, batch_vars>>

\* the operator runs the program again, on the same files with the same
\* arguments; the output of the first run is kept for comparison
Rerun ==
    /\ pc = "done"
    /\ run = 1
    /\ run' = 2
    /\ prev_output' = output
    /\ pc' = "start"
    /\ skill_files' = <<>>
    /\ reports' = <<>>
    /\ output' = NoOutput
    /\ exit_code' = NoExit
    /\ stderr' = <<>>
    /\ UNCHANGED <<fs, args, packager_vars, fixer_vars, batch_vars>>

Next == CheckPath \/ CheckDirectory \/ CheckNextFile \/ Report \/ Rerun

(***************************************************************************)
(* Calls of SkillPackager.package_skill on one skill and one target        *)
(* directory                                                               *)
(***************************************************************************)
MaxCalls == 2

SkillMdChoices ==
    { NoFile, UnreadableFile,
      TextFile("# Title\n"),
      TextFile("---\nname: x\n"),
      TextFile("---\n---\n"),
      TextFile("---\nname: x\ndescription: y\n---\nbody\n"),
      TextFile("--- \n\ntitle: x\n---\nprogressive_disclosure: z\n") }

MetadataChoices ==
    { NoMetadata, UnreadableMetadata, InvalidJson, JsonArray,
      JsonObject({ <<"name", "x">>, <<"version", "1.0.0">>, <<"category", "toolchain">> }),
      JsonObject({ <<"name", "x">>, <<"category", "universal">> }),
      JsonObject({ <<"name", "x">>, <<"version", "1.0">>, <<"category", "misc">> }) }

ReferencesChoices == { NoDir, Dir({"a.md"}) }

SkillChoices ==
    { NoSkill, SkillDir("file", NoFile, NoMetadata, NoDir) }
    \cup { SkillDir("dir", md, meta, refs) :
              md \in SkillMdChoices, meta \in MetadataChoices, refs \in ReferencesChoices }

\* the target directory does not exist, is empty, or holds an older package
TargetChoices ==
    { NoTarget,
      TargetDir(TRUE, NoFile, NoMetadata, NoDir),
      TargetDir(TRUE, TextFile("old\n"), JsonObject({ <<"name", "old">> }), Dir({"old.md"})) }

\* no run of the checker
CheckerIdle ==
    /\ fs = [kind |-> "missing", files |-> <<>>]
    /\ args = DefaultArgs
    /\ pc = "package"
    /\ skill_files = <<>>
    /\ reports = <<>>
    /\ output = NoOutput
    /\ exit_code = NoExit
    /\ run = 1
    /\ prev_output = NoOutput
    /\ stderr = <<>>

\* a SkillPackager before its first call, for any skill and any target
InitPackage ==
    /\ CheckerIdle
    /\ FixerIdle
    /\ BatchIdle
    /\ skill_dir \in SkillChoices
    /\ target_dir \in TargetChoices
    /\ errors = <<>>
    /\ warnings = <<>>
    /\ result = "none"
    /\ last_call = NoCall
    /\ calls = 0

Call(packaged, force, dry_run) ==
    /\ target_dir' = packaged.target_dir
    /\ errors' = packaged.errors
    /\ warnings' = packaged.warnings
    /\ result' = packaged.result
    /\ last_call' = [force |-> force, dry_run |-> dry_run, target_before |-> target_dir]

\* one call of package_skill, with any force and dry_run
PackageSkill ==
    /\ pc = "package"
    /\ calls < MaxCalls
    /\ \E force, dry_run \in BOOLEAN :
          Call(package_skill(skill_dir, target_dir, force, dry_run), force, dry_run)
    /\ calls' = calls + 1
    /\ UNCHANGED <<skill_dir, checker_vars, fixer_vars, batch_vars>>

NextPackage == PackageSkill

\* the skills that fix_skill_metadata is called on
MaxFixCalls == 2

FixPaths ==
    { "/r/universal/x", "/r/toolchains/python/django", "/r/toolchains/platforms/vercel",
      "/r/examples/x" }

\* no SKILL.md, one of no token, one without front matter, one with front
\* matter, one with an entry point
FixSkillMds ==
    { NoFile,
      TextFile("abc"),
      TextFile("# Title\nSome body text.\n"),
      TextFile("---\nname: x\n---\nbody text\n"),
      TextFile("---\nprogressive_disclosure:\n  entry_point:\n    summary: s\n  references:\n---\n") }

FixReferences ==
    { <<>>,
      << [name |-> "a.md", text |-> "0123456789abcdef"],
         [name |-> "notes.txt", text |-> "0123456789"] >> }

OptionalItem(key, values) == { <<>> } \cup { << <<key, v>> >> : v \in values }

\* objects with and without full_tokens, entry_point_tokens and toolchain, in
\* an order and a layout that are not those of the script, and two files as
\* the script writes them
FixObjects ==
    { MetaFile("object",
               << <<"category", JStr(cat)>>, <<"custom", JStr("c")>>, <<"name", JStr("x")>> >>
                   \o ft \o ep \o tc,
               "other") :
         cat \in {"platform", "toolchain"},
         ft \in OptionalItem("full_tokens", {JInt(0), JInt(4), JInt(50)}),
         ep \in OptionalItem("entry_point_tokens", {JInt(85)}),
         tc \in OptionalItem("toolchain", {JNull, JStr("python")}) }
    \cup { MetaFile("object",
                    << <<"name", JStr("x")>>, <<"category", JStr("toolchain")>>,
                       <<"toolchain", JStr("python")>>, <<"entry_point_tokens", JInt(85)>>,
                       <<"full_tokens", JInt(ft)>>, <<"custom", JStr("c")>> >>,
                    "indent2") : ft \in {0, 6} }

FixMetadata ==
    { NoMetaFile, MetaFile("invalid", <<>>, "other"), MetaFile("array", <<>>, "other") }
    \cup FixObjects

FixSkills ==
    { Skill(path, md, refs, meta) :
         path \in FixPaths, md \in FixSkillMds, refs \in FixReferences, meta \in FixMetadata }

\* fix_metadata.py before its first call of fix_skill_metadata, on any skill
InitFix ==
    /\ CheckerIdle
    /\ PackagerIdle
    /\ BatchIdle
    /\ skill \in FixSkills
    /\ fix_log = <<>>

FixCall(fixed, dry_run) ==
    /\ skill' = [skill EXCEPT !.metadata = fixed.metadata]
    /\ fix_log' = Append(fix_log, [dry_run |-> dry_run, fixes |-> fixed.fixes,
                                   raised |-> fixed.raised, before |-> skill.metadata])

\* one call of fix_skill_metadata on the skill, with or without dry_run
FixSkillMetadata ==
    /\ Len(fix_log) < MaxFixCalls
    /\ \E dry_run \in BOOLEAN : FixCall(fix_skill_metadata(skill, dry_run), dry_run)
    /\ UNCHANGED <<checker_vars, packager_vars, batch_vars>>

NextFix == FixSkillMetadata

\* the repository of a run of package_skill.py over several skills
REPO_ROOT == "/r"

MaxBatch == 2

BatchPaths ==
    { "/r/toolchains/python/django", "/r/toolchains/python-django",
      "/r/universal/web", "/r/universal/web-SKILL.md", "/r/examples/demo" }

\* a skill that passes the validation, with its path in the body of SKILL.md,
\* and one whose SKILL.md has no front matter
BatchSkillDirs(path) ==
    { SkillDir("dir", TextFile("---\nname: x\ndescription: y\n---\n" \o path \o "\n"),
               JsonObject({ <<"name", "x">>, <<"version", "1.0.0">>,
                            <<"category", "toolchain">> }),
               NoDir),
      SkillDir("dir", TextFile("# " \o path \o "\n"), NoMetadata, NoDir) }

BatchFlatNames == {get_flat_name(REPO_ROOT, path) : path \in BatchPaths}

\* the skills that find_skills returns, each with the content of its directory
BatchSkills ==
    UNION { { [k \in 1..Cardinality(paths) |->
                 [path |-> SortedSkills(paths)[k], dir |-> dirs[SortedSkills(paths)[k]]]] :
              dirs \in {ds \in [paths -> UNION {BatchSkillDirs(path) : path \in paths}] :
                           \A path \in paths : ds[path] \in BatchSkillDirs(path)} } :
            paths \in {ps \in SUBSET BatchPaths : Cardinality(ps) <= MaxBatch} }

\* nothing under the target, or an older package of one skill
BatchTargets ==
    { [name \in BatchFlatNames |-> NoTarget],
      [name \in BatchFlatNames |->
          IF name = "examples-demo"
          THEN TargetDir(TRUE, TextFile("old\n"), NoMetadata, NoDir) ELSE NoTarget] }

\* main after find_skills, with any --force and --dry-run
InitBatch ==
    /\ CheckerIdle
    /\ PackagerIdle
    /\ FixerIdle
    /\ batch \in [skills : BatchSkills, force : BOOLEAN, dry_run : BOOLEAN]
    /\ target_root \in BatchTargets
    /\ batch_log = <<>>
    /\ batch_exit = NoExit

BatchCall(path, flat_name, packaged) ==
    /\ target_root' = [target_root EXCEPT ![flat_name] = packaged.target_dir]
    /\ batch_log' = Append(batch_log,
                           [path |-> path, flat_name |-> flat_name,
                            result |-> packaged.result,
                            wrote |-> packaged.target_dir /= target_root[flat_name]])

PackageFlat(sk, flat_name) ==
    BatchCall(sk.path, flat_name,
              package_skill(sk.dir, target_root[flat_name], batch.force, batch.dry_run))

\* the body of the loop of main for the next skill (lines 468-472)
PackageNextSkill ==
    /\ batch_exit = NoExit
    /\ Len(batch_log) < Len(batch.skills)
    /\ PackageFlat(batch.skills[Len(batch_log) + 1],
                   get_flat_name(REPO_ROOT, batch.skills[Len(batch_log) + 1].path))
    /\ UNCHANGED <<batch, batch_exit, checker_vars, packager_vars, fixer_vars>>

\* the end of main: 1 without skills or with a failed skill, else 0
FinishBatch ==
    /\ batch_exit = NoExit
    /\ Len(batch_log) = Len(batch.skills)
    /\ batch_exit' = IF batch.skills = <<>> THEN 1
                     ELSE IF \E k \in 1..Len(batch_log) : batch_log[k].result /= "True" THEN 1
                     ELSE 0
    /\ UNCHANGED <<batch, target_root, batch_log, checker_vars, packager_vars, fixer_vars>>

NextBatch == PackageNextSkill \/ FinishBatch

Spec == Init /\ [][Next]_vars

SpecFile == InitFile /\ [][CheckPath]_vars

\* calls of package_skill
SpecPackage == InitPackage /\ [][NextPackage]_vars

\* calls of fix_skill_metadata
SpecFix == InitFix /\ [][NextFix]_vars

\* package_skill.py over the skills it found
SpecBatch == InitBatch /\ [][NextBatch]_vars

(***************************************************************************)
(* Properties.  Every report in reports is the report of the file of its   *)
(* path; the properties read the text of that file.                        *)
(***************************************************************************)
ProseTypes == { "second_person_voice", "passive_voice", "non_imperative_mood",
                "conversational_tone" }

ReportLines(r) == readlines(fs.files[r.file_path].text)

ViolationsOf(r) == {r.violations[i] : i \in 1..Len(r.violations)}
Reports == {reports[k] : k \in 1..Len(reports)}

StartsWithFence(line) == Len(line) >= 3 /\ SubSeq(line, 1, 3) = FENCE

\* the number of fence-start lines among the first n lines
FenceCount(lines, n) == Cardinality({j \in 1..n : StartsWithFence(lines[j])})

\* C1: no second_person_voice, passive_voice, non_imperative_mood or
\* conversational_tone violation carries the number of a line up to which the
\* number of fence-start lines is odd.
C1_NoProseViolationInCodeBlock ==
    \A r \in Reports : \A v \in ViolationsOf(r) :
        v.violation_type \in ProseTypes =>
            FenceCount(ReportLines(r), v.line_num) % 2 = 0

\* a line with a second-person phrase stands inside a code block and draws no
\* violation, while the same line after the block does
C1_Witness ==
    \E r \in Reports : \E n \in 1..Len(ReportLines(r)) :
        /\ FenceCount(ReportLines(r), n) % 2 = 1
        /\ ReportLines(r)[n] = "If you\n"
        /\ \A v \in ViolationsOf(r) : v.line_num /= n
        /\ \E v \in ViolationsOf(r) :
              v.line_num > n /\ v.violation_type = "second_person_voice"

\* a line that holds --- and white space only
IsDashLine(line) == Strip(line) = "---"

\* C2: in a document whose first line is ---, a prose violation is emitted
\* only for a line after the next --- line: no line from the first up to that
\* --- line (a line is --- when it holds --- and white space only) draws one.
C2_NoProseViolationInFrontMatter ==
    \A r \in Reports :
        LET lines == ReportLines(r) IN
        (lines /= <<>> /\ IsDashLine(lines[1])) =>
            \A v \in ViolationsOf(r) :
                v.violation_type \in ProseTypes =>
                    \E j \in 2..(v.line_num - 1) : IsDashLine(lines[j])

\* a second-person line inside the front matter draws no violation, one after
\* the closing --- does
C2_Witness ==
    \E r \in Reports :
        LET lines == ReportLines(r) IN
        /\ Len(lines) >= 4
        /\ IsDashLine(lines[1]) /\ lines[2] = "If you\n" /\ IsDashLine(lines[3])
        /\ \A v \in ViolationsOf(r) : v.line_num > 3
        /\ \E v \in ViolationsOf(r) : v.violation_type = "second_person_voice"

\* the position of the first character that is not white space, 0 if none
FirstNonSpace(line) ==
    LET ps == {p \in 1..Len(line) : CharAt(line, p) \notin SpaceChars}
    IN  IF ps = {} THEN 0 ELSE Min(ps)

FirstCharIn(line, cs) == FirstNonSpace(line) /= 0 /\ CharAt(line, FirstNonSpace(line)) \in cs

IsQuoteLine(line) == FirstCharIn(line, {">"})
IsTableRow(line) == FirstCharIn(line, {"|"})

\* > or # and then white space: a quote, a heading or a comment
IsPrefixedLine(line) ==
    /\ FirstCharIn(line, {">", "#"})
    /\ FirstNonSpace(line) < Len(line)
    /\ CharAt(line, FirstNonSpace(line) + 1) \in SpaceChars

\* - **term**: the line of a definition list
IsDefinitionLine(line) ==
    /\ FirstCharIn(line, {"-"})
    /\ \E p \in (FirstNonSpace(line) + 2)..Len(line) :
          /\ \A q \in (FirstNonSpace(line) + 1)..(p - 1) : CharAt(line, q) \in SpaceChars
          /\ SubSeq(line, p, p + 1) = "**"
          /\ \E e \in (p + 2)..(Len(line) - 2) :
                /\ SubSeq(line, e, e + 2) = "**:"
                /\ \A q \in (p + 2)..(e - 1) : CharAt(line, q) /= "\n"

\* two backticks with at least one character, and no backtick, between them
HasInlineCode(line) ==
    \E p, e \in 1..Len(line) :
        /\ p + 1 < e
        /\ CharAt(line, p) = BACKTICK /\ CharAt(line, e) = BACKTICK
        /\ \A q \in (p + 1)..(e - 1) : CharAt(line, q) /= BACKTICK

\* C3: every prose violation is on a line that the classifier flags neither as
\* code block nor as front matter and that is no blockquote line, table row,
\* heading or comment line, definition-list line, and holds no inline code span.
C3_NoProseViolationOnExceptionLine ==
    \A r \in Reports :
        LET lines == ReportLines(r)
            context == ContextDetector(lines)
        IN  \A v \in ViolationsOf(r) :
                v.violation_type \in ProseTypes =>
                    /\ v.line_num \in 1..Len(lines)
                    /\ ~context.in_code_block[v.line_num]
                    /\ ~context.in_frontmatter[v.line_num]
                    /\ ~IsQuoteLine(lines[v.line_num])
                    /\ ~IsTableRow(lines[v.line_num])
                    /\ ~IsPrefixedLine(lines[v.line_num])
                    /\ ~IsDefinitionLine(lines[v.line_num])
                    /\ ~HasInlineCode(lines[v.line_num])

\* a line with an inline code span and a second-person phrase draws no
\* violation while another line of the document does
C3_Witness ==
    \E r \in Reports : \E n \in 1..Len(ReportLines(r)) :
        /\ ReportLines(r)[n] = "Use " \o BACKTICK \o "x" \o BACKTICK \o " if you\n"
        /\ HasInlineCode(ReportLines(r)[n])
        /\ \A v \in ViolationsOf(r) : v.line_num /= n
        /\ \E v \in ViolationsOf(r) : v.violation_type \in ProseTypes

OnExceptionLine(r, v) ==
    LET lines == ReportLines(r)
    IN  /\ v.line_num \in 1..Len(lines)
        /\ is_exception_context(ContextDetector(lines), v.line_num - 1, lines[v.line_num])

OnPlainLine(r, v) ==
    LET lines == ReportLines(r)
    IN  /\ v.line_num \in 1..Len(lines)
        /\ ~is_exception_context(ContextDetector(lines), v.line_num - 1, lines[v.line_num])

\* C4 as claimed: every violation, of any type, refers to a line for which the
\* classifier reports no exception context.
C4_AsClaimed ==
    \A r \in Reports : \A v \in ViolationsOf(r) : OnPlainLine(r, v)

IsMarkerLine(line) ==
    re_match(EXAMPLE_CHECKMARK_PATTERN, line) \/ re_match(EXAMPLE_CROSSMARK_PATTERN, line)

\* C4 as amended: every violation of the four prose types refers to a line for
\* which the classifier reports no exception context; a missing_code_block or
\* imbalanced_examples violation refers to a marker line and a
\* missing_anti_patterns violation to line 1, whatever the context of that line.
C4_ProseViolationsOnPlainLines ==
    \A r \in Reports : \A v \in ViolationsOf(r) :
        /\ v.violation_type \in ProseTypes => OnPlainLine(r, v)
        /\ v.violation_type \in {"missing_code_block", "imbalanced_examples"} =>
              /\ v.line_num \in 1..Len(ReportLines(r))
              /\ IsMarkerLine(ReportLines(r)[v.line_num])
        /\ v.violation_type = "missing_anti_patterns" => v.line_num = 1

\* one report holds a prose violation and a missing_code_block violation that
\* refers to a line in an exception context
C4_Witness ==
    \E r \in Reports :
        /\ \E v \in ViolationsOf(r) : v.violation_type \in ProseTypes /\ OnPlainLine(r, v)
        /\ \E v \in ViolationsOf(r) :
              v.violation_type = "missing_code_block" /\ OnExceptionLine(r, v)

\* the violations of one type on line n, as their matched texts, in order
MatchedTexts(r, n, vtype) ==
    LET on_line == SelectSeq(r.violations,
                       LAMBDA v : v.line_num = n /\ v.violation_type = vtype)
    IN  [k \in 1..Len(on_line) |-> on_line[k].matched_text]

\* the non-overlapping matches of every rule of a table in a lower-cased line,
\* rule by rule
AllMatches(patterns, line_lower) ==
    Concat([p \in 1..Len(patterns) |->
        LET matches == re_finditer(patterns[p].re, line_lower, TRUE)
        IN  [m \in 1..Len(matches) |-> Some(matches[m])]])

Categories ==
    { [type |-> "second_person_voice", patterns |-> SECOND_PERSON_PATTERNS],
      [type |-> "passive_voice", patterns |-> PASSIVE_VOICE_PATTERNS],
      [type |-> "non_imperative_mood", patterns |-> NON_IMPERATIVE_PATTERNS],
      [type |-> "conversational_tone", patterns |-> CONVERSATIONAL_PATTERNS] }

\* C5: on every line outside the exception contexts, every rule of every
\* category yields one violation per non-overlapping match, all matches and not
\* only the first; a violation carries the 1-based number of its line, the line
\* as it stands in the file, and the matched piece of the lower-cased line.
\* The line "You should always validate input." yields exactly one
\* second_person_voice violation, "you should"; the line "You should do X. You
\* must do Y." exactly two, "you should" and "you must".
C5_OneViolationPerMatch ==
    \A r \in Reports :
        LET lines == ReportLines(r)
            context == ContextDetector(lines)
        IN  /\ \A n \in 1..Len(lines) :
                  ~is_exception_context(context, n - 1, lines[n]) =>
                      /\ \A c \in Categories :
                            MatchedTexts(r, n, c.type) = AllMatches(c.patterns, Lower(lines[n]))
                      /\ lines[n] = "You should always validate input.\n" =>
                            MatchedTexts(r, n, "second_person_voice") = <<Some("you should")>>
                      /\ lines[n] = "You should do X. You must do Y.\n" =>
                            MatchedTexts(r, n, "second_person_voice")
                                = <<Some("you should"), Some("you must")>>
            /\ \A v \in ViolationsOf(r) :
                  v.violation_type \in ProseTypes =>
                      /\ v.line_num \in 1..Len(lines)
                      /\ v.line_content = lines[v.line_num]
                      /\ v.matched_text /= None
                      /\ Occurs(v.matched_text[1], Lower(v.line_content))

\* the line with two second-person phrases stands second in a document and
\* yields two violations with line number 2, the line in its original case
C5_Witness ==
    \E r \in Reports :
        /\ Len(ReportLines(r)) = 2
        /\ ReportLines(r)[2] = "You should do X. You must do Y.\n"
        /\ MatchedTexts(r, 2, "second_person_voice") = <<Some("you should"), Some("you must")>>
        /\ \A v \in ViolationsOf(r) :
              v.line_num = 2 => v.line_content = "You should do X. You must do Y.\n"

SeverityOfType(vtype) ==
    CASE vtype = "second_person_voice" -> "error"
      [] vtype \in {"passive_voice", "non_imperative_mood", "missing_code_block"} -> "warning"
      [] vtype \in {"conversational_tone", "imbalanced_examples", "missing_anti_patterns"} -> "info"
      [] OTHER -> "none"

\* C6: the severity of a violation is determined by its type: error for
\* second_person_voice, warning for passive_voice, non_imperative_mood and
\* missing_code_block, info for conversational_tone, imbalanced_examples and
\* missing_anti_patterns; so every error is a second_person_voice violation.
C6_SeverityByType ==
    \A r \in Reports : \A v \in ViolationsOf(r) :
        /\ v.severity = SeverityOfType(v.violation_type)
        /\ v.severity = "error" => v.violation_type = "second_person_voice"

\* one report holds a passive_voice warning next to a second_person_voice error
C6_Witness ==
    \E r \in Reports :
        /\ \E v \in ViolationsOf(r) :
              v.violation_type = "passive_voice" /\ v.severity = "warning"
        /\ \E v \in ViolationsOf(r) :
              v.violation_type = "second_person_voice" /\ v.severity = "error"

\* the violations of one severity in the collected reports, each by the
\* position of its report and its position in that report
OfSeverity(severity) ==
    UNION { { <<k, i>> : i \in {j \in 1..Len(reports[k].violations) :
                                    reports[k].violations[j].severity = severity} } :
            k \in DOMAIN reports }

\* C7: the exit code is non-zero exactly when the reports hold an error, or
\* --ci is set and they hold a warning; neither info violations nor the output
\* format have a part in it.
C7_ExitCode ==
    pc = "done" =>
        (exit_code /= 0 <=>
            \/ OfSeverity("error") /= {}
            \/ args.ci /\ OfSeverity("warning") /= {})

\* a run with --ci over files with warnings and info violations and without
\* errors ends with a non-zero exit code
C7_Witness ==
    /\ pc = "done"
    /\ args.ci
    /\ OfSeverity("error") = {}
    /\ OfSeverity("warning") /= {}
    /\ OfSeverity("info") /= {}
    /\ exit_code /= 0

DigitValue(c) == CHOOSE d \in 0..9 : SubSeq(DIGITS, d + 1, d + 1) = c

\* the number that the digits of a text spell, read from left to right
RECURSIVE NumberFrom(_, _)
NumberFrom(str, acc) ==
    IF str = "" THEN acc
    ELSE IF Head(str) \in Chars(DIGITS)
         THEN NumberFrom(Tail(str), 10 * acc + DigitValue(Head(str)))
         ELSE NumberFrom(Tail(str), acc)

NumberIn(str) == NumberFrom(str, 0)

\* the totals of errors, warnings and info violations as the output shows them
ShownTotals ==
    IF output.format = "json"
    THEN << NumberIn(output.json.summary.total_errors),
            NumberIn(output.json.summary.total_warnings),
            NumberIn(output.json.summary.total_info) >>
    ELSE IF output.format = "markdown"
    THEN << NumberIn(output.text[7]), NumberIn(output.text[8]), NumberIn(output.text[9]) >>
    ELSE << NumberIn(output.text[8]), NumberIn(output.text[9]), NumberIn(output.text[10]) >>

\* the sums of the per-file counts of the files array of the JSON document
JsonFileSums ==
    LET files == output.json.files
    IN  << Sum([k \in 1..Len(files) |-> NumberIn(files[k].error_count)]),
           Sum([k \in 1..Len(files) |-> NumberIn(files[k].warning_count)]),
           Sum([k \in 1..Len(files) |-> NumberIn(files[k].info_count)]) >>

CountedTotals ==
    << Cardinality(OfSeverity("error")), Cardinality(OfSeverity("warning")),
       Cardinality(OfSeverity("info")) >>

\* C8: the totals of errors, warnings and info violations in the text summary,
\* in the Markdown summary and in the JSON summary equal the numbers of
\* violations of each severity in the reports, and the per-file counts of the
\* JSON document add up to the totals of its summary.
C8_TotalsAgree ==
    pc = "done" =>
        /\ ShownTotals = CountedTotals
        /\ output.format = "json" => JsonFileSums = ShownTotals
        /\ output.format = "markdown" =>
              /\ SubSeq(output.text[7], 1, 14) = "- **Errors:** "
              /\ SubSeq(output.text[8], 1, 16) = "- **Warnings:** "
              /\ SubSeq(output.text[9], 1, 12) = "- **Info:** "
        /\ output.format = "text" =>
              /\ SubSeq(output.text[8], 1, 9) = "  Errors:"
              /\ SubSeq(output.text[9], 1, 11) = "  Warnings:"
              /\ SubSeq(output.text[10], 1, 7) = "  Info:"

\* a JSON document over two files with violations of every severity
C8_Witness ==
    /\ pc = "done"
    /\ output.format = "json"
    /\ Len(output.json.files) = 2
    /\ ShownTotals = <<3, 2, 1>>
    /\ JsonFileSums = <<3, 2, 1>>

\* C9: a second run over the same files with the same arguments prints the
\* same JSON document as the first: the same files in the same order, each
\* with the same violations in the same order.
C9_SameJsonTwice ==
    (pc = "done" /\ run = 2 /\ args.format = "json") =>
        /\ output.format = "json"
        /\ output = prev_output

\* the second run over a directory of two different files with violations
\* has printed its document
C9_Witness ==
    /\ pc = "done" /\ run = 2 /\ args.format = "json"
    /\ fs.kind = "dir"
    /\ Len(output.json.files) = 2
    /\ output.json.files[1].violations /= output.json.files[2].violations
    /\ output.json.files[1].path = "skill1/SKILL.md"
    /\ output = prev_output

MissingAntiPatternsOf(r) ==
    {i \in 1..Len(r.violations) : r.violations[i].violation_type = "missing_anti_patterns"}

\* C10: a report holds exactly one missing_anti_patterns violation, of severity
\* info and at line 1, when the document mentions no anti-pattern and has more
\* than 100 lines, and none otherwise.
C10_MissingAntiPatterns ==
    \A r \in Reports :
        LET long == Len(ReportLines(r)) > 100 IN
        /\ (~r.has_anti_patterns /\ long) => Cardinality(MissingAntiPatternsOf(r)) = 1
        /\ (r.has_anti_patterns \/ ~long) => MissingAntiPatternsOf(r) = {}
        /\ \A i \in MissingAntiPatternsOf(r) :
              r.violations[i].line_num = 1 /\ r.violations[i].severity = "info"

\* a document of 101 lines without an anti-pattern mention draws the violation
C10_Witness ==
    \E r \in Reports :
        /\ Len(ReportLines(r)) = 101
        /\ ~r.has_anti_patterns
        /\ Cardinality(MissingAntiPatternsOf(r)) = 1

\* a line whose first non-blank character is the given mark, followed by
\* white space
StartsWithMark(line, mark) ==
    /\ FirstCharIn(line, {mark})
    /\ FirstNonSpace(line) < Len(line)
    /\ CharAt(line, FirstNonSpace(line) + 1) \in SpaceChars

MissingCodeBlocksAt(r, n) ==
    {i \in 1..Len(r.violations) :
        /\ r.violations[i].violation_type = "missing_code_block"
        /\ r.violations[i].line_num = n}

\* C11: for every line that starts with a check mark or a cross mark and has a
\* line after it, the report holds exactly one missing_code_block violation, a
\* warning, with the number of the marker line when the next line does not
\* start with a fence, and none with that number when it does.
C11_MissingCodeBlock ==
    \A r \in Reports :
        \A n \in 1..(Len(ReportLines(r)) - 1) :
            (StartsWithMark(ReportLines(r)[n], CHECKMARK)
               \/ StartsWithMark(ReportLines(r)[n], CROSSMARK))
            => /\ Cardinality(MissingCodeBlocksAt(r, n))
                    = IF StartsWithFence(ReportLines(r)[n + 1]) THEN 0 ELSE 1
               /\ \A i \in MissingCodeBlocksAt(r, n) :
                      r.violations[i].severity = "warning"

\* a marker followed by a blank line draws the warning, and a marker followed
\* by a fence draws none
C11_Witness ==
    \/ /\ fs.files[1].text = CHECKMARK \o " Good\n" \o "\n"
       /\ \E r \in Reports : Cardinality(MissingCodeBlocksAt(r, 1)) = 1
    \/ /\ fs.files[1].text = CROSSMARK \o " Bad\n" \o FENCE \o "python\n"
       /\ \E r \in Reports : Cardinality(MissingCodeBlocksAt(r, 1)) = 0

MarkedLines(r, mark) ==
    {n \in 1..Len(ReportLines(r)) : StartsWithMark(ReportLines(r)[n], mark)}

ImbalancedExamplesOf(r) ==
    {i \in 1..Len(r.violations) : r.violations[i].violation_type = "imbalanced_examples"}

OneKindOnly(r) ==
    (MarkedLines(r, CHECKMARK) = {}) /= (MarkedLines(r, CROSSMARK) = {})

\* C12: a report holds exactly one imbalanced_examples violation, of severity
\* info and with the number of the first marker line, when the document has
\* check-mark lines and no cross-mark line or cross-mark lines and no
\* check-mark line; it holds none when the document has both kinds or neither.
C12_ImbalancedExamples ==
    \A r \in Reports :
        IF OneKindOnly(r)
        THEN /\ Cardinality(ImbalancedExamplesOf(r)) = 1
             /\ \A i \in ImbalancedExamplesOf(r) :
                    /\ r.violations[i].severity = "info"
                    /\ r.violations[i].line_num
                          = Min(MarkedLines(r, CHECKMARK) \cup MarkedLines(r, CROSSMARK))
        ELSE ImbalancedExamplesOf(r) = {}

\* two check-mark lines and no cross-mark line: one violation, at line 1
C12_Witness ==
    /\ fs.files[1].text = CHECKMARK \o " Good\n" \o CHECKMARK \o " Use " \o BACKTICK \o "x" \o BACKTICK \o "\n"
    /\ \E r \in Reports :
          /\ MarkedLines(r, CHECKMARK) = {1, 2}
          /\ \E i \in ImbalancedExamplesOf(r) : r.violations[i].line_num = 1

\* the violations of a severity in the reports of the files that could be read
ReadableViolations(severity) ==
    {ki \in OfSeverity(severity) : fs.files[reports[ki[1]].file_path].readable}

UnreadableFiles == {k \in DOMAIN fs.files : ~fs.files[k].readable}

\* C13: at the end of a directory scan every file has its report, also the
\* files after one whose reading failed; each failed file is logged once and
\* its report holds no violation; the printed totals and the exit code are
\* those of the files that could be read.
C13_ReadFailureContained ==
    (pc = "done" /\ fs.kind = "dir") =>
        /\ Len(reports) = Len(fs.files)
        /\ \A k \in DOMAIN fs.files : reports[k].file_path = k
        /\ \A k \in UnreadableFiles : reports[k].violations = <<>>
        /\ Len(stderr) = Cardinality(UnreadableFiles)
        /\ \A k \in UnreadableFiles :
              \E j \in DOMAIN stderr : stderr[j] = "Error checking " \o PathStr(k)
        /\ ShownTotals = << Cardinality(ReadableViolations("error")),
                            Cardinality(ReadableViolations("warning")),
                            Cardinality(ReadableViolations("info")) >>
        /\ exit_code /= 0 <=>
              \/ ReadableViolations("error") /= {}
              \/ args.ci /\ ReadableViolations("warning") /= {}

\* the first file of a directory cannot be read and the second holds an
\* error: both have a report, the failure is logged and the run ends with 1
C13_Witness ==
    /\ pc = "done"
    /\ fs.kind = "dir"
    /\ fs.files = <<Unreadable, File("If you\n")>>
    /\ Len(reports) = 2
    /\ reports[1].violations = <<>>
    /\ reports[2].violations /= <<>>
    /\ stderr = << "Error checking skill1/SKILL.md" >>
    /\ exit_code = 1

\* a first line --- and no --- line after it
UnclosedFrontMatter(lines) ==
    /\ lines /= <<>>
    /\ IsDashLine(lines[1])
    /\ \A j \in 2..Len(lines) : ~IsDashLine(lines[j])

\* a line that no rule of the classifier other than the front matter excludes
PlainButForFrontMatter(context, lines, n) ==
    /\ ~context.in_code_block[n]
    /\ ~IsQuoteLine(lines[n])
    /\ ~IsTableRow(lines[n])
    /\ ~IsPrefixedLine(lines[n])
    /\ ~IsDefinitionLine(lines[n])
    /\ ~HasInlineCode(lines[n])

\* C14: in a document whose first line is --- and that holds no later ---
\* line, no line after the first is flagged in_frontmatter, and the prose rules
\* are evaluated on those lines: each of them that is excluded for no other
\* reason draws one violation per match of every rule.
C14_UnclosedFrontMatterIsProse ==
    \A r \in Reports :
        UnclosedFrontMatter(ReportLines(r)) =>
            LET lines == ReportLines(r)
                context == ContextDetector(lines)
            IN  \A n \in 2..Len(lines) :
                    /\ ~context.in_frontmatter[n]
                    /\ PlainButForFrontMatter(context, lines, n) =>
                          \A c \in Categories :
                              MatchedTexts(r, n, c.type)
                                  = AllMatches(c.patterns, Lower(lines[n]))

\* the document of --- and a second-person line: the second line is flagged
\* in_frontmatter and the report holds no violation
C14_Witness ==
    /\ fs.files[1].text = "---\n" \o "If you\n"
    /\ \E r \in Reports :
          /\ ContextDetector(ReportLines(r)).in_frontmatter[2]
          /\ r.violations = <<>>

\* C15: a run on a root path that does not exist reports the condition to the
\* operator and ends with a non-zero exit code.
C15_MissingRootIsFatal ==
    (pc = "done" /\ fs.kind = "missing") =>
        /\ exit_code /= 0
        /\ stderr /= <<>>

\* the run on a path that does not exist ends with exit code 0, no report of
\* a file and nothing logged
C15_Witness ==
    /\ pc = "done"
    /\ fs.kind = "missing"
    /\ reports = <<>>
    /\ stderr = <<>>
    /\ exit_code = 0

\* C16 as claimed: along the violations of a report the line numbers never
\* decrease, and of two violations that share a line and carry a matched
\* text the earlier one can have been matched at a position no further right
\* than the later one.
C16_AsClaimed ==
    \A r \in Reports :
        \A i, j \in 1..Len(r.violations) :
            i < j =>
                /\ r.violations[i].line_num <= r.violations[j].line_num
                /\ ( /\ r.violations[i].line_num = r.violations[j].line_num
                     /\ r.violations[i].matched_text /= None
                     /\ r.violations[j].matched_text /= None )
                   => \E p \in Occurrences(r.violations[i].matched_text[1],
                                           Lower(r.violations[i].line_content)) :
                      \E q \in Occurrences(r.violations[j].matched_text[1],
                                           Lower(r.violations[j].line_content)) :
                          p <= q

\* the categories in the order in which check_file goes through them
ProseTypeOrder ==
    << "second_person_voice", "passive_voice", "non_imperative_mood", "conversational_tone" >>

PatternsOf(type) == (CHOOSE c \in Categories : c.type = type).patterns

\* type and matched text of the violations a plain line draws: category by
\* category, rule by rule, and for one rule match by match from left to right
ExpectedProseOnLine(line) ==
    Concat([k \in 1..Len(ProseTypeOrder) |->
        LET ms == AllMatches(PatternsOf(ProseTypeOrder[k]), Lower(line))
        IN  [m \in 1..Len(ms) |-> <<ProseTypeOrder[k], ms[m]>>]])

TypedTexts(vs) == [k \in 1..Len(vs) |-> <<vs[k].violation_type, vs[k].matched_text>>]

ProseOnLine(r, n) ==
    SelectSeq(r.violations, LAMBDA v : v.violation_type \in ProseTypes /\ v.line_num = n)

\* prose violations, then missing_code_block, then imbalanced_examples, then
\* missing_anti_patterns
Phase(v) ==
    CASE v.violation_type \in ProseTypes -> 1
      [] v.violation_type = "missing_code_block" -> 2
      [] v.violation_type = "imbalanced_examples" -> 3
      [] OTHER -> 4

\* C16 as amended: in a report the prose violations come first, in line order,
\* and those of one line stand category by category in the order
\* second_person_voice, passive_voice, non_imperative_mood,
\* conversational_tone, within a category rule by rule in table order, and for
\* one rule in the order of the match positions; the missing_code_block
\* violations follow in line order, then imbalanced_examples, then
\* missing_anti_patterns.
C16_ViolationOrder ==
    \A r \in Reports :
        /\ \A i, j \in 1..Len(r.violations) :
              i < j =>
                  /\ Phase(r.violations[i]) <= Phase(r.violations[j])
                  /\ ( Phase(r.violations[i]) = Phase(r.violations[j])
                       /\ Phase(r.violations[i]) \in {1, 2} )
                     => r.violations[i].line_num <= r.violations[j].line_num
        /\ LET lines == ReportLines(r)
               context == ContextDetector(lines)
           IN  \A n \in 1..Len(lines) :
                   TypedTexts(ProseOnLine(r, n))
                     = IF is_exception_context(context, n - 1, lines[n])
                       THEN <<>>
                       ELSE ExpectedProseOnLine(lines[n])

\* a marker line without a code block, then a line with two second-person
\* phrases and "should do" between them: the three prose violations of line 2
\* stand before the two example violations of line 1, and "should do" stands
\* after "you must"
C16_Witness ==
    /\ fs.files[1].text = CHECKMARK \o " Good\n" \o "You should do X. You must do Y.\n"
    /\ \E r \in Reports :
          /\ Len(r.violations) = 5
          /\ TypedTexts(SubSeq(r.violations, 1, 3))
                = << <<"second_person_voice", Some("you should")>>,
                     <<"second_person_voice", Some("you must")>>,
                     <<"non_imperative_mood", Some("should do")>> >>
          /\ r.violations[3].line_num = 2
          /\ r.violations[4].violation_type = "missing_code_block"
          /\ r.violations[4].line_num = 1
          /\ r.violations[5].violation_type = "imbalanced_examples"

\* the k-th smallest element of a set of numbers
Nth(S, k) == CHOOSE e \in S : Cardinality({x \in S : x <= e}) = k

\* the lines of a rendering: the heading of a file, the heading of a group, a
\* displayed violation and the count of omitted violations
IsFileHeading(format, line) ==
    IF format = "markdown" THEN StartsWith(line, "### ") ELSE StartsWith(line, "\n(file) ")

IsGroupHeading(format, line) ==
    IF format = "markdown" THEN StartsWith(line, "#### ") ELSE StartsWith(line, "\n  ")

IsShownViolation(format, line) ==
    IF format = "markdown" THEN StartsWith(line, "- (") ELSE StartsWith(line, "    (")

IsOmittedCount(line) == StartsWith(line, "    ... and ")

\* the violation type that the heading of a group names
GroupType(format, line) ==
    LET title == IF format = "markdown"
                 THEN SubSeq(line, 6, Len(line))
                 ELSE SubSeq(line, 4, Min({q \in 1..(Len(line) - 1) : SubSeq(line, q, q + 1) = " ("}) - 1)
    IN  Replace(Lower(title), " ", "_")

\* the part of a rendering from the j-th heading of the given kind up to the
\* next heading of a file or of a group, or to the end
PartFrom(format, text, heads, stops, j) ==
    SubSeq(text, Nth(heads, j),
           Min({q \in stops \cup {Len(text) + 1} : q > Nth(heads, j)}) - 1)

FileHeadings(format, text) == {q \in 1..Len(text) : IsFileHeading(format, text[q])}
GroupHeadings(format, text) == {q \in 1..Len(text) : IsGroupHeading(format, text[q])}

\* the rendering of the j-th file with violations
FilePart(format, text, j) ==
    PartFrom(format, text, FileHeadings(format, text), FileHeadings(format, text), j)

\* the rendering of the g-th group of the rendering of a file
GroupPart(format, part, g) ==
    PartFrom(format, part, GroupHeadings(format, part), GroupHeadings(format, part), g)

ShownIn(format, group) ==
    Cardinality({q \in 1..Len(group) : IsShownViolation(format, group[q])})

OmittedCounts(group) ==
    SelectSeq(group, IsOmittedCount)

TypesOf(violations) == {violations[i].violation_type : i \in 1..Len(violations)}

\* a group of the rendering of a file, as the claim describes it
GroupAsClaimed(format, part, g, violations, limit) ==
    LET group == GroupPart(format, part, g)
        vtype == GroupType(format, group[1])
        size == Len(OfType(violations, vtype))
    IN  /\ vtype \in TypesOf(violations)
        /\ g > 1 => StrLess(GroupType(format, GroupPart(format, part, g - 1)[1]), vtype)
        /\ ShownIn(format, group) <= limit
        /\ size <= limit => ShownIn(format, group) = size
        /\ size > limit =>
              /\ Len(OmittedCounts(group)) = 1
              /\ NumberIn(OmittedCounts(group)[1]) = size - limit

FileAsClaimed(format, part, violations, limit) ==
    /\ Cardinality(GroupHeadings(format, part)) = Cardinality(TypesOf(violations))
    /\ \A g \in 1..Cardinality(GroupHeadings(format, part)) :
          GroupAsClaimed(format, part, g, violations, limit)

WithViolations(rs) == SelectSeq(rs, LAMBDA r : r.violations /= <<>>)

RenderingAsClaimed(format, text, rs, limit) ==
    /\ Cardinality(FileHeadings(format, text)) = Len(rs)
    /\ \A j \in 1..Len(rs) :
          FileAsClaimed(format, FilePart(format, text, j), rs[j].violations, limit)

\* C17: in the text detail view and in the Markdown report the violations of
\* a file are shown in groups, one per violation type, in ascending order of
\* the type names; a group shows at most --max-violations violations, and when
\* it holds more it states how many were left out.
C17_GroupedAndCapped ==
    (pc = "done" /\ output.format \in {"text", "markdown"}) =>
        RenderingAsClaimed(output.format, output.text, WithViolations(reports),
                           args.max_violations)

\* the Markdown report of a file with two second-person violations, printed
\* with --max-violations 1, shows both and states no omitted count
C17_Witness ==
    /\ pc = "done"
    /\ output.format = "markdown"
    /\ args.max_violations = 1
    /\ Len(reports) = 1
    /\ Len(OfType(reports[1].violations, "second_person_voice")) = 2
    /\ \E g \in 1..Cardinality(GroupHeadings("markdown", output.text)) :
          /\ GroupType("markdown", GroupPart("markdown", output.text, g)[1])
                = "second_person_voice"
          /\ ShownIn("markdown", GroupPart("markdown", output.text, g)) = 2
    /\ \A q \in 1..Len(output.text) : ~IsOmittedCount(output.text[q])

\* a cross mark and, further right on the same line, a word
MarkThen(mark, word, line) ==
    \E p \in Occurrences(mark, line) : \E q \in Occurrences(word, line) : p < q

AnyLine(r, Test(_)) ==
    \E n \in 1..Len(ReportLines(r)) : Test(Lower(ReportLines(r)[n]))

\* C18 as claimed: has_anti_patterns is true exactly for the documents that
\* hold, in any letter case, anti-pattern, antipattern, a cross mark followed
\* on the same line by wrong, don't, do not, or avoid.
C18_AsClaimed ==
    \A r \in Reports :
        r.has_anti_patterns <=>
            AnyLine(r, LAMBDA line :
                \/ Occurs("anti-pattern", line)
                \/ Occurs("antipattern", line)
                \/ MarkThen(CROSSMARK, "wrong", line)
                \/ Occurs("don't", line)
                \/ Occurs("do not", line)
                \/ Occurs("avoid", line))

\* C18 as amended: has_anti_patterns is true exactly for the documents that
\* hold on one line, in any letter case, anti-pattern, anti and pattern with
\* one blank or tab between them, a cross mark followed by wrong, don't, dont,
\* or avoid.
C18_HasAntiPatterns ==
    \A r \in Reports :
        r.has_anti_patterns <=>
            AnyLine(r, LAMBDA line :
                \/ Occurs("anti-pattern", line)
                \/ Occurs("anti pattern", line)
                \/ Occurs("anti\tpattern", line)
                \/ MarkThen(CROSSMARK, "wrong", line)
                \/ Occurs("don't", line)
                \/ Occurs("dont", line)
                \/ Occurs("avoid", line))

\* the document "An antipattern" is reported without anti-patterns
C18_Witness ==
    /\ fs.files[1].text = "An antipattern\n"
    /\ \E r \in Reports : ~r.has_anti_patterns

\* a report with the path of another file in it and in its violations
Relabel(r, file_path) ==
    [r EXCEPT !.file_path = file_path,
              !.violations = [i \in 1..Len(r.violations) |->
                                 [r.violations[i] EXCEPT !.file_path = file_path]]]

\* the report of a file that is checked alone, as a run on the file collects it
SoloReport(file) == check_file(1, file)

\* C19: at every moment of a directory scan, each report collected so far is
\* the report that the same file draws when it is checked alone, but for the
\* path: the files before and after it in the scan have no part in it, and a
\* report once collected stays as it is while other files are processed.
C19_ReportDependsOnFileOnly ==
    fs.kind = "dir" =>
        \A k \in 1..Len(reports) :
            /\ reports[k].file_path \in DOMAIN fs.files
            /\ Relabel(reports[k], 1) = SoloReport(fs.files[reports[k].file_path])

\* a scan of two files with the same text after each other: both reports hold
\* the same violations, and the first is as it was collected
C19_Witness ==
    /\ fs.kind = "dir"
    /\ pc = "done"
    /\ Len(reports) = 2
    /\ fs.files[1] = File("If you\n")
    /\ fs.files[2] = File("If you\n")
    /\ reports[1].violations /= <<>>
    /\ Relabel(reports[2], 1) = reports[1]

\* the call left the target directory as it was
TargetUnchanged == target_dir = last_call.target_before

\* C20: a call of package_skill changes the target directory only when the
\* validation reported no error, the target directory did not exist or force
\* was set, and dry_run was not set; and the call returns False when the
\* validation reported an error or the target existed and force was not set.
C20_PackageOnlyWhenAllowed ==
    calls > 0 =>
        /\ ~TargetUnchanged =>
              /\ errors = <<>>
              /\ ~last_call.target_before.exists \/ last_call.force
              /\ ~last_call.dry_run
        /\ (errors /= <<>> \/ (last_call.target_before.exists /\ ~last_call.force))
              => result = "False"

\* metadata.json holds a JSON array and the target exists: the call without
\* force raises, after the validator has recorded errors, and the target is
\* as it was
C20_Witness ==
    /\ calls > 0
    /\ skill_dir.kind = "dir"
    /\ skill_dir.metadata = JsonArray
    /\ last_call.target_before.exists
    /\ ~last_call.force
    /\ errors /= <<>>
    /\ result = "raised"
    /\ TargetUnchanged

\* the part of C20 on the target directory: it is changed only by a call for
\* which the validation reported no error, with no target before or with
\* force, and without dry_run; every such call that returns True leaves the
\* skill's SKILL.md in it
TargetWrittenOnlyWhenAllowed ==
    calls > 0 =>
        /\ ~TargetUnchanged =>
              /\ errors = <<>>
              /\ ~last_call.target_before.exists \/ last_call.force
              /\ ~last_call.dry_run
              /\ result = "True"
        /\ (result = "True" /\ ~last_call.dry_run) =>
              target_dir.exists /\ target_dir.skill_md = skill_dir.skill_md

\* a call without an exception returns False when the validation reported an
\* error or the target existed and force was not set
ReturnsFalseWhenRefused ==
    (calls > 0 /\ result /= "raised") =>
        ((errors /= <<>> \/ (last_call.target_before.exists /\ ~last_call.force))
            => result = "False")

\* metadata.json is there, parses to a JSON object and has the required fields
MetadataComplete(metadata) ==
    /\ metadata.kind = "object"
    /\ \A k \in 1..Len(REQUIRED_FIELDS) : HasField(metadata.fields, REQUIRED_FIELDS[k])

\* SKILL.md is there and starts with front matter that is closed
SkillMdWellFormed(skill_md) ==
    /\ skill_md.kind = "text"
    /\ HasFrontmatter(skill_md.text)

\* C21: package_skill returns True only for a skill directory whose SKILL.md
\* starts with well-formed front matter and whose metadata.json exists, parses
\* as JSON and contains the fields name, version and category.
C21_PackagedOnlyWithMetadata ==
    (calls > 0 /\ result = "True") =>
        /\ skill_dir.kind = "dir"
        /\ SkillMdWellFormed(skill_dir.skill_md)
        /\ MetadataComplete(skill_dir.metadata)

\* a skill without metadata.json was packaged: the target holds its SKILL.md
\* and no metadata.json, and the validator left a warning and no error
C21_Witness ==
    /\ calls > 0
    /\ result = "True"
    /\ ~last_call.dry_run
    /\ skill_dir.kind = "dir"
    /\ SkillMdWellFormed(skill_dir.skill_md)
    /\ skill_dir.metadata = NoMetadata
    /\ errors = <<>>
    /\ warnings /= <<>>
    /\ target_dir.exists
    /\ target_dir.skill_md = skill_dir.skill_md
    /\ target_dir.metadata = NoMetadata

\* what the code does hold to: a packaged skill has a well-formed SKILL.md,
\* and its metadata.json, when there is one, is complete
PackagedOnlyWhenValid ==
    (calls > 0 /\ result = "True") =>
        /\ skill_dir.kind = "dir"
        /\ SkillMdWellFormed(skill_dir.skill_md)
        /\ skill_dir.metadata = NoMetadata \/ MetadataComplete(skill_dir.metadata)

\* the line draws a violation of one of the four prose types
HasProseViolation(r, n) ==
    \E v \in ViolationsOf(r) : v.line_num = n /\ v.violation_type \in ProseTypes

\* C23: every line that starts with the fence marker, be it the line that
\* opens a code block or the line that closes it, is flagged in_code_block by
\* the classifier and draws no violation of the four prose types, whatever
\* follows the backticks on the line.
C23_FenceLinesExempt ==
    \A r \in Reports :
        LET lines == ReportLines(r)
            context == ContextDetector(lines)
        IN  \A n \in 1..Len(lines) :
                StartsWithFence(lines[n]) =>
                    /\ context.in_code_block[n]
                    /\ ~HasProseViolation(r, n)

\* a fence line with a second-person phrase after the backticks closes a code
\* block: it is not flagged in_code_block and draws a violation
C23_Witness ==
    \E r \in Reports :
        LET lines == ReportLines(r)
            context == ContextDetector(lines)
        IN  /\ Len(lines) = 2
            /\ StartsWithFence(lines[1])
            /\ lines[2] = FENCE \o " you should\n"
            /\ context.in_code_block[1]
            /\ ~context.in_code_block[2]
            /\ HasProseViolation(r, 2)

\* the part of C23 the classifier holds to: a fence line is flagged exactly
\* when it opens a block, and then it draws no prose violation
OpeningFenceLinesExempt ==
    \A r \in Reports :
        LET lines == ReportLines(r)
            context == ContextDetector(lines)
        IN  \A n \in 1..Len(lines) :
                StartsWithFence(lines[n]) =>
                    /\ context.in_code_block[n] <=> (FenceCount(lines, n) % 2 = 1)
                    /\ context.in_code_block[n] => ~HasProseViolation(r, n)

\* the three backticks stand somewhere on the line
HasFence(line) == Occurs(FENCE, line)

\* in_code_block of the line before line n, False before the first line
CodeBlockBefore(context, n) == IF n = 1 THEN FALSE ELSE context.in_code_block[n - 1]

\* C24 as claimed: a line on which the fence marker stands after other text
\* toggles the code-block state: the line's in_code_block differs from that
\* of the line before it, as on a line that starts with the marker.
C24_AsClaimed ==
    \A r \in Reports :
        LET lines == ReportLines(r)
            context == ContextDetector(lines)
        IN  \A n \in 1..Len(lines) :
                HasFence(lines[n]) =>
                    context.in_code_block[n] /= CodeBlockBefore(context, n)

\* a line with the marker after other text leaves the state as it was: the
\* second-person line after it is checked as prose
C24_Witness ==
    \E r \in Reports :
        LET lines == ReportLines(r)
            context == ContextDetector(lines)
        IN  /\ Len(lines) = 2
            /\ lines[1] = "x " \o FENCE \o "\n"
            /\ ~StartsWithFence(lines[1])
            /\ ~context.in_code_block[1]
            /\ ~context.in_code_block[2]
            /\ HasProseViolation(r, 2)

\* C24 as amended: the code-block state toggles on the lines
\* that start with the fence marker and on no other line; a line with the
\* marker after other text leaves the state of the line before it.
C24_FenceTogglesAtLineStartOnly ==
    \A r \in Reports :
        LET lines == ReportLines(r)
            context == ContextDetector(lines)
        IN  \A n \in 1..Len(lines) :
                (context.in_code_block[n] /= CodeBlockBefore(context, n))
                    <=> StartsWithFence(lines[n])

\* the --- lines after the first line
LaterDashLines(lines) == {j \in 2..Len(lines) : IsDashLine(lines[j])}

\* C25: front matter opens on the first line only and closes once. In a
\* document whose first line is not --- no line is flagged in_frontmatter,
\* however many --- lines follow; and in a document whose first line is ---
\* no line after the next --- line is flagged in_frontmatter, even when
\* further --- lines follow (a line is --- when it holds --- and white space
\* only).
C25_FrontMatterOpensOnceClosesOnce ==
    \A r \in Reports :
        LET lines == ReportLines(r)
            context == ContextDetector(lines)
        IN  lines /= <<>> =>
                /\ ~IsDashLine(lines[1]) =>
                      \A n \in 1..Len(lines) : ~context.in_frontmatter[n]
                /\ (IsDashLine(lines[1]) /\ LaterDashLines(lines) /= {}) =>
                      \A n \in (Min(LaterDashLines(lines)) + 1)..Len(lines) :
                          ~context.in_frontmatter[n]

\* front matter is opened on line 1 and closed on line 2; the third --- does
\* not open it again, and the second-person line after it draws a violation
C25_Witness ==
    \E r \in Reports :
        LET lines == ReportLines(r)
            context == ContextDetector(lines)
        IN  /\ lines = << "---\n", "---\n", "---\n", "If you\n" >>
            /\ context.in_frontmatter = << TRUE, FALSE, FALSE, FALSE >>
            /\ HasProseViolation(r, 4)

\* a --- line in a document that does not start with one opens nothing
C25_WitnessLate ==
    \E r \in Reports :
        LET lines == ReportLines(r)
            context == ContextDetector(lines)
        IN  /\ lines = << "If you\n", "---\n", "If you\n" >>
            /\ context.in_frontmatter = << FALSE, FALSE, FALSE >>
            /\ HasProseViolation(r, 3)

\* C27: a marker line that is the last line of the document has no fence line
\* after it and draws one missing_code_block violation, a warning, like a
\* marker line followed by a line that is no fence.
C27_LastLineMarker ==
    \A r \in Reports :
        LET lines == ReportLines(r)
        IN  (lines /= <<>> /\ (StartsWithMark(lines[Len(lines)], CHECKMARK)
                               \/ StartsWithMark(lines[Len(lines)], CROSSMARK))) =>
                /\ Cardinality(MissingCodeBlocksAt(r, Len(lines))) = 1
                /\ \A i \in MissingCodeBlocksAt(r, Len(lines)) :
                      r.violations[i].severity = "warning"

\* a document ends with a marker line: the marker is counted as an example
\* (the imbalance is reported on it) and draws no missing_code_block, while
\* the same marker on the line before, followed by no fence, draws one
C27_Witness ==
    \E r \in Reports :
        LET lines == ReportLines(r)
        IN  /\ lines = << CHECKMARK \o " Good\n", CHECKMARK \o " Good\n" >>
            /\ Cardinality(MissingCodeBlocksAt(r, 1)) = 1
            /\ MissingCodeBlocksAt(r, 2) = {}
            /\ \E v \in ViolationsOf(r) : v.violation_type = "imbalanced_examples"

\* what the loop does: the marker on the last line never draws the warning
LastLineMarkerIsSilent ==
    \A r \in Reports :
        LET lines == ReportLines(r)
        IN  lines /= <<>> => MissingCodeBlocksAt(r, Len(lines)) = {}

\* the files the run scanned: those of the directory, or the one file
ScannedFiles == IF fs.kind = "missing" THEN <<>> ELSE fs.files

\* the positions, in scan order, of the reports with at least one violation
ReportsWithViolations == {k \in 1..Len(reports) : reports[k].violations /= <<>>}

\* C26: in the JSON document the files array holds exactly the reports with
\* at least one violation, in scan order: its length is the number shown as
\* summary.files_with_violations, every entry has a violations list that is
\* not empty, and summary.total_files is the number of files scanned, those
\* without violations and those that could not be read included.
C26_JsonFilesArray ==
    (pc = "done" /\ output.format = "json") =>
        LET files == output.json.files
            summary == output.json.summary
        IN  /\ Len(files) = NumberIn(summary.files_with_violations)
            /\ Len(files) = Cardinality(ReportsWithViolations)
            /\ \A j \in 1..Len(files) :
                  LET r == reports[Nth(ReportsWithViolations, j)]
                  IN  /\ files[j].violations /= <<>>
                      /\ files[j].path = PathStr(r.file_path)
                      /\ Len(files[j].violations) = Len(r.violations)
            /\ NumberIn(summary.total_files) = Len(ScannedFiles)
            /\ Len(reports) = Len(ScannedFiles)

\* a directory of an unreadable file, and a file with violations: the array
\* holds the second file only and total_files is 2
C26_Witness ==
    /\ pc = "done"
    /\ output.format = "json"
    /\ fs.kind = "dir"
    /\ fs.files = << Unreadable, File("If you\n") >>
    /\ Len(output.json.files) = 1
    /\ output.json.files[1].path = PathStr(2)
    /\ output.json.summary.total_files = "2"
    /\ output.json.summary.files_with_violations = "1"

\* a directory of a file without violations and a file with violations
C26_WitnessClean ==
    /\ pc = "done"
    /\ output.format = "json"
    /\ fs.kind = "dir"
    /\ fs.files = << File("plain\n"), File("If you\n") >>
    /\ Len(output.json.files) = 1
    /\ output.json.summary.total_files = "2"

\* the number that the group states as omitted, 0 when it states none
OmittedIn(group) ==
    IF OmittedCounts(group) = <<>> THEN 0
    ELSE Sum([q \in 1..Len(OmittedCounts(group)) |-> NumberIn(OmittedCounts(group)[q])])

\* the groups of the text detail view account for their violations: every
\* group shows and states as omitted as many violations as it holds
GroupsAccountFor(text, rs) ==
    \A j \in 1..Len(rs) :
        LET part == FilePart("text", text, j)
        IN  \A g \in 1..Cardinality(GroupHeadings("text", part)) :
                LET group == GroupPart("text", part, g)
                    size == Len(OfType(rs[j].violations, GroupType("text", group[1])))
                IN  ShownIn("text", group) + OmittedIn(group) = size

\* C28: in the text detail view, for every group of every file and every
\* limit given as --max-violations, 0 and negative limits included, the
\* number of violations shown for the group plus the number stated as omitted
\* (0 without such a line) is the number of violations in the group.
C28_ShownPlusOmitted ==
    (pc = "done" /\ output.format = "text") =>
        GroupsAccountFor(output.text, WithViolations(reports))

\* with --max-violations -1 a group of two violations shows one of them and
\* states three as omitted
C28_Witness ==
    /\ pc = "done"
    /\ output.format = "text"
    /\ args.max_violations = -1
    /\ \E j \in 1..Len(WithViolations(reports)) :
          LET part == FilePart("text", output.text, j)
          IN  \E g \in 1..Cardinality(GroupHeadings("text", part)) :
                  LET group == GroupPart("text", part, g)
                  IN  /\ Len(OfType(WithViolations(reports)[j].violations,
                                    GroupType("text", group[1]))) = 2
                      /\ ShownIn("text", group) = 1
                      /\ OmittedIn(group) = 3

\* the sum is right for the limits that are not negative
ShownPlusOmittedFromZero ==
    (pc = "done" /\ output.format = "text" /\ args.max_violations >= 0) =>
        GroupsAccountFor(output.text, WithViolations(reports))

\* with the limit 0 a group shows nothing and states all its violations
ZeroLimitWitness ==
    /\ pc = "done"
    /\ output.format = "text"
    /\ args.max_violations = 0
    /\ WithViolations(reports) /= <<>>
    /\ LET group == GroupPart("text", FilePart("text", output.text, 1), 1)
       IN  ShownIn("text", group) = 0 /\ OmittedIn(group) >= 1

(***************************************************************************)
(* Properties of fix_metadata.py.  fix_log[k] is the k-th call on the      *)
(* skill: its dry_run, what it returned and metadata.json before it.       *)
(***************************************************************************)
\* metadata.json after the k-th call
MetadataAfter(k) == IF k = Len(fix_log) THEN skill.metadata ELSE fix_log[k + 1].before

\* C22: a call of fix_skill_metadata with dry_run leaves metadata.json as it
\* was, and the call without dry_run that follows it on the same skill
\* returns the same list of fixes (and raises when the dry run raised).
C22_DryRunWritesNothing ==
    \A k \in 1..Len(fix_log) :
        fix_log[k].dry_run =>
            /\ MetadataAfter(k) = fix_log[k].before
            /\ (k < Len(fix_log) /\ ~fix_log[k + 1].dry_run) =>
                  /\ fix_log[k + 1].fixes = fix_log[k].fixes
                  /\ fix_log[k + 1].raised = fix_log[k].raised

\* a dry run returns three fixes and leaves the file; the run after it
\* returns the same three and writes the file
C22_Witness ==
    /\ Len(fix_log) = 2
    /\ fix_log[1].dry_run /\ ~fix_log[2].dry_run
    /\ Len(fix_log[1].fixes) >= 3
    /\ fix_log[2].before = fix_log[1].before
    /\ fix_log[2].fixes = fix_log[1].fixes
    /\ skill.metadata /= fix_log[2].before
    /\ skill.metadata.layout = "indent2"

\* C29: of two calls without dry_run, one right after the other on the same
\* skill, the second returns an empty list and leaves metadata.json as the
\* first left it; for every skill, one of no token included.
C29_Idempotent ==
    \A k \in 1..(Len(fix_log) - 1) :
        (~fix_log[k].dry_run /\ ~fix_log[k + 1].dry_run) =>
            /\ fix_log[k + 1].fixes = <<>>
            /\ MetadataAfter(k + 1) = fix_log[k + 1].before

\* SKILL.md counts no token and there are no references: the first run sets
\* full_tokens to 0, and the second run reports full_tokens again
C29_Witness ==
    /\ Len(fix_log) = 2
    /\ ~fix_log[1].dry_run /\ ~fix_log[2].dry_run
    /\ skill.skill_md = TextFile("abc")
    /\ skill.references = <<>>
    /\ fix_log[1].before.kind = "object"
    /\ DictGet(fix_log[2].before.items, "full_tokens", JNull) = JInt(0)
    /\ fix_log[2].fixes = << "full_tokens: 0 -> 0" >>
    /\ skill.metadata = fix_log[2].before

\* the second run has nothing to fix when metadata.json is a JSON object and
\* SKILL.md is missing or the skill counts at least one token
IdempotentWithTokens ==
    \A k \in 1..(Len(fix_log) - 1) :
        (/\ ~fix_log[k].dry_run /\ ~fix_log[k + 1].dry_run
         /\ skill.metadata.kind = "object"
         /\ skill.skill_md.kind = "absent" \/ ActualTokens(skill) > 0) =>
            /\ fix_log[k + 1].fixes = <<>>
            /\ MetadataAfter(k + 1) = fix_log[k + 1].before

\* the second run writes the text that is there already
SecondRunKeepsTheFile ==
    \A k \in 1..(Len(fix_log) - 1) :
        (~fix_log[k].dry_run /\ ~fix_log[k + 1].dry_run) =>
            MetadataAfter(k + 1) = fix_log[k + 1].before

(***************************************************************************)
(* Properties of a run of package_skill.py over several skills.            *)
(* batch_log[k] is the call of package_skill for the k-th skill.           *)
(***************************************************************************)
\* C30: get_flat_name gives different skill directories of the repository
\* different flat names, so two skills of one run are never both written
\* into the same directory of the target.
C30_DistinctFlatNames ==
    \A i, j \in 1..Len(batch_log) :
        i < j =>
            /\ batch_log[i].path /= batch_log[j].path
            /\ get_flat_name(REPO_ROOT, batch_log[i].path)
                   /= get_flat_name(REPO_ROOT, batch_log[j].path)
            /\ ~(batch_log[i].wrote /\ batch_log[j].wrote
                    /\ batch_log[i].flat_name = batch_log[j].flat_name)

\* with --force the skills toolchains/python/django and
\* toolchains/python-django are both written to toolchains-python-django,
\* which holds the SKILL.md of the second in the end
C30_Witness ==
    /\ Len(batch_log) = 2
    /\ batch.force
    /\ batch_log[1].path = "/r/toolchains/python/django"
    /\ batch_log[2].path = "/r/toolchains/python-django"
    /\ batch_log[1].flat_name = "toolchains-python-django"
    /\ batch_log[2].flat_name = "toolchains-python-django"
    /\ batch_log[1].wrote /\ batch_log[2].wrote
    /\ batch_log[1].result = "True" /\ batch_log[2].result = "True"
    /\ target_root["toolchains-python-django"].skill_md = batch.skills[2].dir.skill_md
    /\ batch.skills[1].dir.skill_md /= batch.skills[2].dir.skill_md

\* without --force the second of two skills of one flat name is refused
SecondOfOneNameRefused ==
    \A i, j \in 1..Len(batch_log) :
        (/\ i < j
         /\ ~batch.force
         /\ batch_log[i].flat_name = batch_log[j].flat_name
         /\ batch_log[i].wrote) =>
            batch_log[j].result = "False" /\ ~batch_log[j].wrote

\* the second skill is refused and the run ends with exit code 1
RefusedWitness ==
    /\ Len(batch_log) = 2
    /\ ~batch.force
    /\ batch_log[1].flat_name = batch_log[2].flat_name
    /\ batch_log[1].wrote
    /\ batch_log[2].result = "False"
    /\ batch_exit = 1

====
